---- MODULE Spec2Model ----
(***************************************************************************)
(* A model of the MiniPy toolchain: lexer, semantic analyzer, optimizer,   *)
(* bytecode compiler, stack VM and the tree-walking interpreter.           *)
(*                                                                         *)
(* Each stage is a function of its input, modelled as an operator that     *)
(* follows the Python code statement by statement; the specifications      *)
(* draw inputs from bounded sets and apply the stages.                     *)
(***************************************************************************)
EXTENDS Integers, Sequences, FiniteSets, TLC

VARIABLES
    pc,            \* position of the driver or test harness in the pipeline
    source,        \* Lexer.source: a sequence of characters
    lx,            \* Lexer state: [pos, line, indent_stack, tokens, in_newline, status]
    ast,           \* the Program under analysis: the sequence of its statements
    an,            \* SemanticAnalyzer state: [scopes, errors, raised]
    idx,           \* statements of the Program analysed so far by analyze_program
    opt,           \* Optimizer.optimize(ast)
    opt2,          \* Optimizer.optimize(opt)
    bc,            \* Compiler output: [code, consts, names]
    vm,            \* VM state: [stack, globals, ip, out, status, fault, steps]
    ref,           \* VM state of the run of the unoptimized program
    interp,        \* Interpreter state: [globals, out, status, fault]
    ps,            \* Parser state: [tokens, pos, status, error_at]
    drv            \* state of the command-line driver

vars == <<pc, source, lx, ast, an, idx, opt, opt2, bc, vm, ref, interp, ps, drv>>

(***************************************************************************)
(* Bounds of the model.                                                    *)
(***************************************************************************)
MaxVal == 2        \* integer literals and pool constants range over -MaxVal..MaxVal
MaxSteps == 60     \* VM instructions executed in one run before the model stops
MaxFuel == 4       \* loop iterations the interpreter model follows
MaxIndent == 2     \* leading spaces of a source line
MaxLines == 3      \* lines of a source text

(***************************************************************************)
(* bytecode.py                                                             *)
(***************************************************************************)
LOAD_CONST == "LOAD_CONST"
LOAD_NAME == "LOAD_NAME"
STORE_NAME == "STORE_NAME"
ADD == "ADD"
SUB == "SUB"
MUL == "MUL"
DIV == "DIV"
CMP_LT == "CMP_LT"
CMP_GT == "CMP_GT"
CMP_LE == "CMP_LE"
CMP_GE == "CMP_GE"
CMP_EQ == "CMP_EQ"
CMP_NEQ == "CMP_NEQ"
JUMP == "JUMP"
JUMP_IF_FALSE == "JUMP_IF_FALSE"
JUMP_IF_TRUE == "JUMP_IF_TRUE"
POP == "POP"
PRINT == "PRINT"
HALT == "HALT"

\* Instruction.arg defaults to None; operands are never negative, so -1 stands for None.
NoArg == -1

Instruction(opcode, arg) == [opcode |-> opcode, arg |-> arg]

CmpOpcodes == {CMP_LT, CMP_GT, CMP_LE, CMP_GE, CMP_EQ, CMP_NEQ}

(***************************************************************************)
(* Python's a // b for b # 0: the quotient rounded toward minus infinity.  *)
(* (\div of Integers is the floor quotient for a positive divisor only.)   *)
(***************************************************************************)
FloorDiv(a, b) == IF b > 0 THEN a \div b ELSE (0 - a) \div (0 - b)

(***************************************************************************)
(* vm.py                                                                   *)
(***************************************************************************)
NoGlobals == [n \in {} |-> 0]

\* VM.__init__ followed by the first line of run (ip = 0).
VMInit == [stack |-> <<>>, globals |-> NoGlobals, ip |-> 0, out |-> <<>>,
           status |-> "running", fault |-> "", steps |-> 0]

VMIdle == [stack |-> <<>>, globals |-> NoGlobals, ip |-> 0, out |-> <<>>,
           status |-> "idle", fault |-> "", steps |-> 0]

\* Mutant of VMFault: the error is raised after ip has moved on.
VMFaultLate(s, msg) == [s EXCEPT !.status = "fault", !.fault = msg, !.ip = @ + 1]

\* raise VMError(msg, self.ip): the run ends, ip stays at the faulting instruction.
VMFault(s, msg) == [s EXCEPT !.status = "fault", !.fault = msg]

\* An exception that is not a VMError (IndexError, TypeError) escapes run.
VMCrash(s, msg) == [s EXCEPT !.status = "crash", !.fault = msg]

Push(s, v) == [s EXCEPT !.stack = Append(@, v)]
Top(s) == s.stack[Len(s.stack)]
Drop(s) == [s EXCEPT !.stack = SubSeq(@, 1, Len(@) - 1)]
Advance(s) == [s EXCEPT !.ip = @ + 1]

\* b = self.pop(); a = self.pop(); self.push(f(a, b)); self.ip += 1
BinaryOp(s, opcode) ==
    IF s.stack = <<>> THEN VMFault(s, "Stack underflow")
    ELSE IF Len(s.stack) = 1 THEN VMFault(Drop(s), "Stack underflow")
    ELSE LET b == s.stack[Len(s.stack)]
             a == s.stack[Len(s.stack) - 1]
             rest == [s EXCEPT !.stack = SubSeq(@, 1, Len(@) - 2)]
         IN  CASE opcode = ADD -> Advance(Push(rest, a + b))
               [] opcode = SUB -> Advance(Push(rest, a - b))
               [] opcode = MUL -> Advance(Push(rest, a * b))
               [] opcode = DIV -> IF b = 0 THEN VMFault(rest, "Division by zero")
                                  ELSE Advance(Push(rest, FloorDiv(a, b)))
               [] opcode = CMP_LT -> Advance(Push(rest, IF a < b THEN 1 ELSE 0))
               [] opcode = CMP_GT -> Advance(Push(rest, IF a > b THEN 1 ELSE 0))
               [] opcode = CMP_EQ -> Advance(Push(rest, IF a = b THEN 1 ELSE 0))

VMBinaryOpcodes == {ADD, SUB, MUL, DIV, CMP_LT, CMP_GT, CMP_EQ}

ExecLoadConst(s, consts, arg) ==
    IF arg < 0 \/ arg >= Len(consts) THEN VMCrash(s, "IndexError")
    ELSE Advance(Push(s, consts[arg + 1]))

ExecLoadName(s, names, arg) ==
    IF arg < 0 \/ arg >= Len(names) THEN VMCrash(s, "IndexError")
    ELSE LET name == names[arg + 1]
         IN  IF name \notin DOMAIN s.globals
             THEN VMFault(s, "Undefined variable")
             ELSE Advance(Push(s, s.globals[name]))

\* Mutant of ExecStoreName: the new binding replaces the whole of globals.
ExecStoreNameFresh(s, names, arg) ==
    IF s.stack = <<>> THEN VMFault(s, "Stack underflow")
    ELSE IF arg < 0 \/ arg >= Len(names) THEN VMCrash(Drop(s), "IndexError")
    ELSE Advance([Drop(s) EXCEPT !.globals = [n \in {names[arg + 1]} |-> Top(s)]])

ExecStoreName(s, names, arg) ==
    IF s.stack = <<>> THEN VMFault(s, "Stack underflow")
    ELSE IF arg < 0 \/ arg >= Len(names) THEN VMCrash(Drop(s), "IndexError")
    ELSE LET name == names[arg + 1]
             value == Top(s)
         IN  Advance([Drop(s) EXCEPT !.globals =
                 [n \in DOMAIN s.globals \cup {name} |->
                     IF n = name THEN value ELSE s.globals[n]]])

ExecJump(s, arg) ==
    IF arg = NoArg THEN VMCrash(s, "TypeError") ELSE [s EXCEPT !.ip = arg]

\* Mutant of ExecJumpIfFalse: the jump is taken on a non-zero value.
ExecJumpIfFalseInverted(s, arg) ==
    IF s.stack = <<>> THEN VMFault(s, "Stack underflow")
    ELSE IF Top(s) # 0
         THEN (IF arg = NoArg THEN VMCrash(Drop(s), "TypeError")
               ELSE [Drop(s) EXCEPT !.ip = arg])
         ELSE Advance(Drop(s))

\* Mutant of ExecJumpIfFalse: the tested value stays on the stack.
ExecJumpIfFalsePeek(s, arg) ==
    IF s.stack = <<>> THEN VMFault(s, "Stack underflow")
    ELSE IF Top(s) = 0
         THEN (IF arg = NoArg THEN VMCrash(s, "TypeError") ELSE [s EXCEPT !.ip = arg])
         ELSE Advance(s)

ExecJumpIfFalse(s, arg) ==
    IF s.stack = <<>> THEN VMFault(s, "Stack underflow")
    ELSE IF Top(s) = 0
         THEN (IF arg = NoArg THEN VMCrash(Drop(s), "TypeError")
               ELSE [Drop(s) EXCEPT !.ip = arg])
         ELSE Advance(Drop(s))

ExecPrint(s) ==
    IF s.stack = <<>> THEN VMFault(s, "Stack underflow")
    ELSE Advance([Drop(s) EXCEPT !.out = Append(@, Top(s))])

\* One iteration of the while loop of VM.run, for a running machine.
VMStep(s, code, consts, names) ==
    IF s.ip >= Len(code) THEN [s EXCEPT !.status = "ended"]
    ELSE LET instr == code[s.ip + 1]
             opcode == instr.opcode
             arg == instr.arg
             t == [s EXCEPT !.steps = @ + 1]
         IN  CASE opcode = LOAD_CONST -> ExecLoadConst(t, consts, arg)
               [] opcode = LOAD_NAME -> ExecLoadName(t, names, arg)
               [] opcode = STORE_NAME -> ExecStoreName(t, names, arg)
               [] opcode \in VMBinaryOpcodes -> BinaryOp(t, opcode)
               [] opcode = JUMP -> ExecJump(t, arg)
               [] opcode = JUMP_IF_FALSE -> ExecJumpIfFalse(t, arg)
               [] opcode = PRINT -> ExecPrint(t)
               [] opcode = HALT -> [t EXCEPT !.status = "halted"]
               [] OTHER -> VMFault(t, "Unknown opcode")

\* VM.run, followed for at most MaxSteps instructions.
RECURSIVE VMRunFrom(_, _, _, _)
VMRunFrom(s, code, consts, names) ==
    IF s.status # "running" \/ s.steps >= MaxSteps THEN s
    ELSE VMRunFrom(VMStep(s, code, consts, names), code, consts, names)

run_bytecode(code, consts, names) == VMRunFrom(VMInit, code, consts, names)

(***************************************************************************)
(* ast_nodes.py.  A node is a record tagged by kind.  If.else_body is      *)
(* Optional: has_else = FALSE stands for None (else_body is then <<>>).    *)
(* A Program is the sequence of its statements.                            *)
(***************************************************************************)
Number(value, line) == [kind |-> "Number", value |-> value, line |-> line]
Var(name, line) == [kind |-> "Var", name |-> name, line |-> line]
BinOp(left, op, right, line) ==
    [kind |-> "BinOp", left |-> left, op |-> op, right |-> right, line |-> line]
Assign(name, expr, line) == [kind |-> "Assign", name |-> name, expr |-> expr, line |-> line]
PrintStmt(expr, line) == [kind |-> "Print", expr |-> expr, line |-> line]
If(cond, then_body, has_else, else_body, line) ==
    [kind |-> "If", cond |-> cond, then_body |-> then_body,
     has_else |-> has_else, else_body |-> else_body, line |-> line]
While(cond, body, line) == [kind |-> "While", cond |-> cond, body |-> body, line |-> line]

\* Python's truth value of node.else_body: neither None nor the empty list.
ElseTruthy(node) == node.has_else /\ node.else_body # <<>>

ArithOps == {"+", "-", "*", "/"}
RelOps == {"<", ">", "<=", ">="}
EqOps == {"==", "!="}
AllOps == ArithOps \cup RelOps \cup EqOps

(***************************************************************************)
(* compiler.py.  The compiler state is [code, consts, names]; const_map    *)
(* and name_map are the inverse of the pools and are not kept apart.       *)
(* Positions and pool indices are 0-based as in the code; sequences are    *)
(* 1-based, so code[i + 1] is the instruction at index i.                  *)
(***************************************************************************)
CompilerInit == [code |-> <<>>, consts |-> <<>>, names |-> <<>>]

Range(seq) == {seq[i] : i \in DOMAIN seq}
IndexIn(seq, v) == (CHOOSE i \in DOMAIN seq : seq[i] = v) - 1

\* const_index: the pool after interning value; the index is IndexIn(consts, value).
\* Mutant of InternConst: a new value goes to the front of the pool.
InternConstFront(c, value) ==
    IF value \notin Range(c.consts) THEN [c EXCEPT !.consts = <<value>> \o @] ELSE c

InternConst(c, value) ==
    IF value \notin Range(c.consts) THEN [c EXCEPT !.consts = Append(@, value)] ELSE c

InternName(c, name) ==
    IF name \notin Range(c.names) THEN [c EXCEPT !.names = Append(@, name)] ELSE c

emit(c, opcode, arg) == [c EXCEPT !.code = Append(@, Instruction(opcode, arg))]

\* Mutant of patch_jump: the operand written is one past the label.
patch_jump_past(c, pos, target) ==
    IF pos < Len(c.code) THEN [c EXCEPT !.code[pos + 1].arg = target + 1] ELSE c

\* Mutant of patch_jump: the operand written is the index of the jump itself.
patch_jump_self(c, pos, target) ==
    IF pos < Len(c.code) THEN [c EXCEPT !.code[pos + 1].arg = pos] ELSE c

patch_jump(c, pos, target) ==
    IF pos < Len(c.code) THEN [c EXCEPT !.code[pos + 1].arg = target] ELSE c

compile_number(c, node) ==
    LET c1 == InternConst(c, node.value)
    IN  emit(c1, LOAD_CONST, IndexIn(c1.consts, node.value))

compile_var(c, node) ==
    LET c1 == InternName(c, node.name)
    IN  emit(c1, LOAD_NAME, IndexIn(c1.names, node.name))

BinOpcode(op) ==
    CASE op = "+" -> ADD
      [] op = "-" -> SUB
      [] op = "*" -> MUL
      [] op = "/" -> DIV
      [] op = "<" -> CMP_LT
      [] op = ">" -> CMP_GT
      [] op = "<=" -> CMP_LE
      [] op = ">=" -> CMP_GE
      [] op = "==" -> CMP_EQ
      [] op = "!=" -> CMP_NEQ

RECURSIVE compile_expr(_, _)
compile_binop(c, node) ==
    LET c1 == compile_expr(c, node.left)
        c2 == compile_expr(c1, node.right)
    IN  emit(c2, BinOpcode(node.op), NoArg)

compile_expr(c, node) ==
    CASE node.kind = "BinOp" -> compile_binop(c, node)
      [] node.kind = "Number" -> compile_number(c, node)
      [] node.kind = "Var" -> compile_var(c, node)

RECURSIVE compile_stmt(_, _)
RECURSIVE compile_body(_, _)

\* for stmt in body: self.compile(stmt)
compile_body(c, stmts) ==
    IF stmts = <<>> THEN c
    ELSE compile_body(compile_stmt(c, Head(stmts)), Tail(stmts))

compile_assign(c, node) ==
    LET c1 == compile_expr(c, node.expr)
        c2 == InternName(c1, node.name)
    IN  emit(c2, STORE_NAME, IndexIn(c2.names, node.name))

\* Mutant of compile_print: PRINT is emitted without the code of the expression.
compile_print_bare(c, node) == emit(c, PRINT, NoArg)

compile_print(c, node) == emit(compile_expr(c, node.expr), PRINT, NoArg)

\* Mutant of compile_if: the JUMP over the else body is emitted only when there
\* is an else body.
compile_if_bare(c, node) ==
    LET c1 == compile_expr(c, node.cond)
        else_label_pos == Len(c1.code)
        c2 == emit(c1, JUMP_IF_FALSE, NoArg)
        c3 == compile_body(c2, node.then_body)
        end_label_pos == Len(c3.code)
        c4 == IF ElseTruthy(node) THEN emit(c3, JUMP, NoArg) ELSE c3
        c5 == patch_jump(c4, else_label_pos, Len(c4.code))
        c6 == IF ElseTruthy(node) THEN compile_body(c5, node.else_body) ELSE c5
    IN  IF ElseTruthy(node) THEN patch_jump(c6, end_label_pos, Len(c6.code)) ELSE c6

compile_if(c, node) ==
    LET c1 == compile_expr(c, node.cond)
        else_label_pos == Len(c1.code)
        c2 == emit(c1, JUMP_IF_FALSE, NoArg)
        c3 == compile_body(c2, node.then_body)
        end_label_pos == Len(c3.code)
        c4 == emit(c3, JUMP, NoArg)
        c5 == patch_jump(c4, else_label_pos, Len(c4.code))
        c6 == IF ElseTruthy(node) THEN compile_body(c5, node.else_body) ELSE c5
    IN  patch_jump(c6, end_label_pos, Len(c6.code))

\* Mutant of compile_while: the back-jump goes to the JUMP_IF_FALSE, not to the
\* condition.
compile_while_stale(c, node) ==
    LET c1 == compile_expr(c, node.cond)
        end_label_pos == Len(c1.code)
        c2 == emit(c1, JUMP_IF_FALSE, NoArg)
        c3 == compile_body(c2, node.body)
        c4 == emit(c3, JUMP, end_label_pos)
    IN  patch_jump(c4, end_label_pos, Len(c4.code))

compile_while(c, node) ==
    LET loop_start == Len(c.code)
        c1 == compile_expr(c, node.cond)
        end_label_pos == Len(c1.code)
        c2 == emit(c1, JUMP_IF_FALSE, NoArg)
        c3 == compile_body(c2, node.body)
        c4 == emit(c3, JUMP, loop_start)
    IN  patch_jump(c4, end_label_pos, Len(c4.code))

compile_stmt(c, node) ==
    CASE node.kind = "Assign" -> compile_assign(c, node)
      [] node.kind = "Print" -> compile_print(c, node)
      [] node.kind = "If" -> compile_if(c, node)
      [] node.kind = "While" -> compile_while(c, node)

compile_program(c, statements) == emit(compile_body(c, statements), HALT, NoArg)

compile_ast(statements) == compile_program(CompilerInit, statements)

(***************************************************************************)
(* interpreter.py.  An evaluation yields [fault, value]; fault is "" when  *)
(* no exception was raised.  A statement maps an interpreter state         *)
(* [globals, out, status, fault] to the next one.  interpret_while is      *)
(* followed for at most MaxFuel iterations (status "nofuel" beyond).       *)
(***************************************************************************)
InterpInit == [globals |-> NoGlobals, out |-> <<>>, status |-> "ok", fault |-> ""]
InterpIdle == [globals |-> NoGlobals, out |-> <<>>, status |-> "idle", fault |-> ""]

Value(v) == [fault |-> "", value |-> v]
Raise(msg) == [fault |-> msg, value |-> 0]

RECURSIVE interpret_expr(_, _)
interpret_binop(g, node) ==
    LET l == interpret_expr(g, node.left)
        r == interpret_expr(g, node.right)
        left == l.value
        right == r.value
    IN  IF l.fault # "" THEN l
        ELSE IF r.fault # "" THEN r
        ELSE CASE node.op = "+" -> Value(left + right)
               [] node.op = "-" -> Value(left - right)
               [] node.op = "*" -> Value(left * right)
               [] node.op = "/" -> IF right = 0 THEN Raise("Division by zero")
                                   ELSE Value(FloorDiv(left, right))
               [] node.op = "<" -> Value(IF left < right THEN 1 ELSE 0)
               [] node.op = ">" -> Value(IF left > right THEN 1 ELSE 0)
               [] node.op = "==" -> Value(IF left = right THEN 1 ELSE 0)
               [] OTHER -> Raise("Unknown operator")

interpret_var(g, node) ==
    IF node.name \notin DOMAIN g THEN Raise("Undefined variable") ELSE Value(g[node.name])

interpret_expr(g, node) ==
    CASE node.kind = "BinOp" -> interpret_binop(g, node)
      [] node.kind = "Number" -> Value(node.value)
      [] node.kind = "Var" -> interpret_var(g, node)

InterpFault(st, msg) == [st EXCEPT !.status = "fault", !.fault = msg]

RECURSIVE interpret_stmt(_, _)
RECURSIVE interpret_body(_, _)
RECURSIVE interpret_loop(_, _, _)

interpret_body(st, stmts) ==
    IF stmts = <<>> \/ st.status # "ok" THEN st
    ELSE interpret_body(interpret_stmt(st, Head(stmts)), Tail(stmts))

interpret_assign(st, node) ==
    LET v == interpret_expr(st.globals, node.expr)
    IN  IF v.fault # "" THEN InterpFault(st, v.fault)
        ELSE [st EXCEPT !.globals =
                 [n \in DOMAIN st.globals \cup {node.name} |->
                     IF n = node.name THEN v.value ELSE st.globals[n]]]

interpret_print(st, node) ==
    LET v == interpret_expr(st.globals, node.expr)
    IN  IF v.fault # "" THEN InterpFault(st, v.fault)
        ELSE [st EXCEPT !.out = Append(@, v.value)]

interpret_if(st, node) ==
    LET cond == interpret_expr(st.globals, node.cond)
    IN  IF cond.fault # "" THEN InterpFault(st, cond.fault)
        ELSE IF cond.value # 0 THEN interpret_body(st, node.then_body)
        ELSE IF ElseTruthy(node) THEN interpret_body(st, node.else_body)
        ELSE st

interpret_loop(st, node, fuel) ==
    IF st.status # "ok" THEN st
    ELSE LET cond == interpret_expr(st.globals, node.cond)
         IN  IF cond.fault # "" THEN InterpFault(st, cond.fault)
             ELSE IF cond.value = 0 THEN st
             ELSE IF fuel = 0 THEN [st EXCEPT !.status = "nofuel"]
             ELSE interpret_loop(interpret_body(st, node.body), node, fuel - 1)

interpret_while(st, node) == interpret_loop(st, node, MaxFuel)

interpret_stmt(st, node) ==
    CASE node.kind = "Assign" -> interpret_assign(st, node)
      [] node.kind = "Print" -> interpret_print(st, node)
      [] node.kind = "If" -> interpret_if(st, node)
      [] node.kind = "While" -> interpret_while(st, node)

interpret_ast(statements) == interpret_body(InterpInit, statements)

(***************************************************************************)
(* optimizer.py                                                            *)
(***************************************************************************)
NoResult == [none |-> TRUE, value |-> 0]
Result(v) == [none |-> FALSE, value |-> v]

\* evaluate_constants: Optional[int]; none stands for None.
evaluate_constants(left, op, right) ==
    CASE op = "+" -> Result(left + right)
      [] op = "-" -> Result(left - right)
      [] op = "*" -> Result(left * right)
      [] op = "/" -> IF right = 0 THEN NoResult ELSE Result(FloorDiv(left, right))
      [] op = "<" -> Result(IF left < right THEN 1 ELSE 0)
      [] op = ">" -> Result(IF left > right THEN 1 ELSE 0)
      [] op = "<=" -> Result(IF left <= right THEN 1 ELSE 0)
      [] op = ">=" -> Result(IF left >= right THEN 1 ELSE 0)
      [] op = "==" -> Result(IF left = right THEN 1 ELSE 0)
      [] op = "!=" -> Result(IF left # right THEN 1 ELSE 0)
      [] OTHER -> NoResult

IsNumber(node) == node.kind = "Number"
IsNumberOf(node, v) == node.kind = "Number" /\ node.value = v

\* The "simple optimizations" of optimize_binop, applied to optimized operands.
Simplify(left, op, right, line) ==
    IF op = "+" THEN
        IF IsNumberOf(right, 0) THEN left
        ELSE IF IsNumberOf(left, 0) THEN right
        ELSE BinOp(left, op, right, line)
    ELSE IF op = "*" THEN
        IF IsNumberOf(right, 1) THEN left
        ELSE IF IsNumberOf(left, 1) THEN right
        ELSE IF IsNumberOf(left, 0) \/ IsNumberOf(right, 0) THEN Number(0, line)
        ELSE BinOp(left, op, right, line)
    ELSE IF op = "-" THEN
        IF IsNumberOf(right, 0) THEN left
        ELSE BinOp(left, op, right, line)
    ELSE BinOp(left, op, right, line)

\* The constant folding of optimize_binop, applied to optimized operands.
Fold(left, op, right, line) ==
    LET result == IF IsNumber(left) /\ IsNumber(right)
                  THEN evaluate_constants(left.value, op, right.value)
                  ELSE NoResult
    IN  IF ~result.none THEN Number(result.value, line)
        ELSE Simplify(left, op, right, line)

RECURSIVE optimize_expr(_)
\* Mutant of optimize_binop: folding looks at the operands as written, not as optimized.
optimize_binop_shallow(node) ==
    IF IsNumber(node.left) /\ IsNumber(node.right)
    THEN Fold(node.left, node.op, node.right, node.line)
    ELSE Simplify(optimize_expr(node.left), node.op, optimize_expr(node.right), node.line)

optimize_binop(node) ==
    Fold(optimize_expr(node.left), node.op, optimize_expr(node.right), node.line)

optimize_expr(node) == IF node.kind = "BinOp" THEN optimize_binop(node) ELSE node

RECURSIVE optimize_stmt(_)
\* [self.optimize(stmt) for stmt in body]
optimize_body(stmts) == [i \in DOMAIN stmts |-> optimize_stmt(stmts[i])]

optimize_assign(node) == Assign(node.name, optimize_expr(node.expr), node.line)

optimize_print(node) == PrintStmt(optimize_expr(node.expr), node.line)

\* Mutant of optimize_if: both branches are kept whatever the condition folded to.
optimize_if_keep(node) ==
    LET optimized_cond == optimize_expr(node.cond)
    IN  IF ElseTruthy(node)
        THEN If(optimized_cond, optimize_body(node.then_body),
                TRUE, optimize_body(node.else_body), node.line)
        ELSE If(optimized_cond, optimize_body(node.then_body), FALSE, <<>>, node.line)

optimize_if(node) ==
    LET optimized_cond == optimize_expr(node.cond)
    IN  IF IsNumber(optimized_cond)
        THEN IF optimized_cond.value # 0
             THEN If(optimized_cond, optimize_body(node.then_body), FALSE, <<>>, node.line)
             ELSE IF ElseTruthy(node)
                  THEN If(optimized_cond, <<>>, TRUE, optimize_body(node.else_body), node.line)
                  ELSE If(optimized_cond, <<>>, FALSE, <<>>, node.line)
        ELSE IF ElseTruthy(node)
             THEN If(optimized_cond, optimize_body(node.then_body),
                     TRUE, optimize_body(node.else_body), node.line)
             ELSE If(optimized_cond, optimize_body(node.then_body), FALSE, <<>>, node.line)

optimize_while(node) ==
    LET optimized_cond == optimize_expr(node.cond)
    IN  IF IsNumberOf(optimized_cond, 0)
        THEN While(optimized_cond, <<>>, node.line)
        ELSE While(optimized_cond, optimize_body(node.body), node.line)

optimize_stmt(node) ==
    CASE node.kind = "Assign" -> optimize_assign(node)
      [] node.kind = "Print" -> optimize_print(node)
      [] node.kind = "If" -> optimize_if(node)
      [] node.kind = "While" -> optimize_while(node)

optimize_program(statements) == optimize_body(statements)

(***************************************************************************)
(* semantic.py.  The scope chain is a sequence of mappings, the current    *)
(* scope last and its parents before it; a mapping takes a name to its     *)
(* VariableInfo [type, line].  The analyzer state is                       *)
(* [scopes, errors, raised]; raised records a SemanticError raised by      *)
(* Scope.declare or Scope.update, which check does not catch.              *)
(***************************************************************************)
INT == "Int"
BOOL == "Bool"
ERROR == "Error"
Types == {INT, BOOL, ERROR}

NoVariables == [n \in {} |-> [type |-> ERROR, line |-> 0]]
VariableInfo(type, line) == [type |-> type, line |-> line]

SemanticError(kind, name, line) == [kind |-> kind, name |-> name, line |-> line]

AnalyzerInit == [scopes |-> <<NoVariables>>, errors |-> <<>>, raised |-> FALSE]

Report(a, kind, name, line) ==
    [a EXCEPT !.errors = Append(@, SemanticError(kind, name, line))]

\* The index of the innermost scope of the chain that holds name; 0 when none does.
RECURSIVE HolderFrom(_, _, _)
HolderFrom(scopes, k, name) ==
    IF k = 0 THEN 0
    ELSE IF name \in DOMAIN scopes[k] THEN k
    ELSE HolderFrom(scopes, k - 1, name)

\* Scope.lookup from the current scope: [found, type, line]; found = FALSE is None.
lookup(scopes, name) ==
    LET k == HolderFrom(scopes, Len(scopes), name)
    IN  IF k = 0 THEN [found |-> FALSE, type |-> ERROR, line |-> 0]
        ELSE [found |-> TRUE, type |-> scopes[k][name].type, line |-> scopes[k][name].line]

Bind(variables, name, info) ==
    [n \in DOMAIN variables \cup {name} |-> IF n = name THEN info ELSE variables[n]]

\* Scope.declare on the current scope.
declare(a, name, var_type, line) ==
    IF name \in DOMAIN a.scopes[Len(a.scopes)]
    THEN [a EXCEPT !.raised = TRUE]
    ELSE [a EXCEPT !.scopes[Len(a.scopes)] = Bind(@, name, VariableInfo(var_type, line))]

\* Scope.update on the current scope: rewrites the entry where the name is declared.
update(a, name, var_type, line) ==
    LET k == HolderFrom(a.scopes, Len(a.scopes), name)
    IN  IF k = 0 THEN [a EXCEPT !.raised = TRUE]
        ELSE [a EXCEPT !.scopes[k] = Bind(@, name, VariableInfo(var_type, line))]

Typed(a, type) == [a |-> a, type |-> type]

\* Mutant of analyze_var: a name that is not declared is taken to be an Int.
analyze_var_lenient(a, node) ==
    IF ~lookup(a.scopes, node.name).found THEN Typed(a, INT)
    ELSE Typed(a, lookup(a.scopes, node.name).type)

analyze_var(a, node) ==
    IF ~lookup(a.scopes, node.name).found
    THEN Typed(Report(a, "Undefined", node.name, node.line), ERROR)
    ELSE Typed(a, lookup(a.scopes, node.name).type)

\* Mutant of binop_type: '==' and '!=' are typed like '<', both operands must be Int.
binop_type_int_only(a, op, left_type, right_type, line) ==
    IF op \in ArithOps THEN
        IF left_type # INT \/ right_type # INT
        THEN Typed(Report(a, "Arithmetic", "", line), ERROR)
        ELSE Typed(a, INT)
    ELSE IF op \in RelOps \cup EqOps THEN
        IF left_type # INT \/ right_type # INT
        THEN Typed(Report(a, "Comparison", "", line), ERROR)
        ELSE Typed(a, BOOL)
    ELSE Typed(a, ERROR)

\* The type rules of analyze_binop, given the types of the analysed operands.
binop_type(a, op, left_type, right_type, line) ==
    IF op \in ArithOps THEN
        IF left_type # INT \/ right_type # INT
        THEN Typed(Report(a, "Arithmetic", "", line), ERROR)
        ELSE Typed(a, INT)
    ELSE IF op \in RelOps THEN
        IF left_type # INT \/ right_type # INT
        THEN Typed(Report(a, "Comparison", "", line), ERROR)
        ELSE Typed(a, BOOL)
    ELSE IF op \in EqOps THEN
        IF left_type # right_type
        THEN Typed(Report(a, "Equality", "", line), ERROR)
        ELSE Typed(a, BOOL)
    ELSE Typed(a, ERROR)

RECURSIVE analyze_expr(_, _)
analyze_binop(a, node) ==
    LET l == analyze_expr(a, node.left)
        r == analyze_expr(l.a, node.right)
    IN  binop_type(r.a, node.op, l.type, r.type, node.line)

analyze_expr(a, node) ==
    CASE node.kind = "BinOp" -> analyze_binop(a, node)
      [] node.kind = "Number" -> Typed(a, INT)
      [] node.kind = "Var" -> analyze_var(a, node)
      [] OTHER -> Typed(a, ERROR)

\* Mutant of analyze_assign: an assignment to an existing variable declares it again.
analyze_assign_redeclare(a, node) ==
    LET e == analyze_expr(a, node.expr)
        var_info == lookup(e.a.scopes, node.name)
    IN  IF ~var_info.found
        THEN IF e.type = ERROR THEN e.a
             ELSE declare(e.a, node.name, e.type, node.line)
        ELSE IF e.type # var_info.type
             THEN Report(e.a, "TypeMismatch", node.name, node.line)
             ELSE declare(e.a, node.name, e.type, node.line)

analyze_assign(a, node) ==
    LET e == analyze_expr(a, node.expr)
        var_info == lookup(e.a.scopes, node.name)
    IN  IF ~var_info.found
        THEN IF e.type = ERROR THEN e.a
             ELSE declare(e.a, node.name, e.type, node.line)
        ELSE IF e.type # var_info.type
             THEN Report(e.a, "TypeMismatch", node.name, node.line)
             ELSE update(e.a, node.name, e.type, node.line)

analyze_print(a, node) == analyze_expr(a, node.expr).a

\* The condition check shared by analyze_if and analyze_while.
analyze_cond(a, node) ==
    LET c == analyze_expr(a, node.cond)
    IN  IF c.type # BOOL THEN Report(c.a, "Condition", "", node.line) ELSE c.a

RECURSIVE analyze_stmt(_, _)
RECURSIVE analyze_body(_, _)

\* for stmt in body: self.analyze(stmt); an escaping exception ends the loop.
analyze_body(a, stmts) ==
    IF stmts = <<>> \/ a.raised THEN a
    ELSE analyze_body(analyze_stmt(a, Head(stmts)), Tail(stmts))

\* Mutant of analyze_block: the body is analysed in the enclosing scope itself.
analyze_block_leaky(a, stmts) == analyze_body(a, stmts)

\* self.current_scope = Scope(old_scope); the body; self.current_scope = old_scope
analyze_block(a, stmts) ==
    LET inner == analyze_body([a EXCEPT !.scopes = Append(@, NoVariables)], stmts)
    IN  IF inner.raised THEN inner
        ELSE [inner EXCEPT !.scopes = SubSeq(@, 1, Len(@) - 1)]

\* Mutant of analyze_if: a condition that is not Bool ends the analysis of the if.
analyze_if_abort(a, node) ==
    LET c == analyze_expr(a, node.cond)
        a1 == analyze_cond(a, node)
        a2 == analyze_block(a1, node.then_body)
    IN  IF c.type # BOOL THEN a1
        ELSE IF a2.raised \/ ~ElseTruthy(node) THEN a2
        ELSE analyze_block(a2, node.else_body)

analyze_if(a, node) ==
    LET a1 == analyze_cond(a, node)
        a2 == analyze_block(a1, node.then_body)
    IN  IF a2.raised \/ ~ElseTruthy(node) THEN a2
        ELSE analyze_block(a2, node.else_body)

analyze_while(a, node) == analyze_block(analyze_cond(a, node), node.body)

analyze_stmt(a, node) ==
    CASE node.kind = "Assign" -> analyze_assign(a, node)
      [] node.kind = "Print" -> analyze_print(a, node)
      [] node.kind = "If" -> analyze_if(a, node)
      [] node.kind = "While" -> analyze_while(a, node)

\* SemanticAnalyzer.check: a fresh error list and global scope, then analyze_program.
check(statements) == analyze_body(AnalyzerInit, statements)

(***************************************************************************)
(* lexer.py.  The source is a sequence of one-character strings.  A token  *)
(* is [type, text, num, line]: text is the lexeme (a sequence of           *)
(* characters), num the value of a NUMBER or the level of an INDENT or     *)
(* DEDENT.  Columns are not modelled.  The lexer state is                  *)
(* [pos, line, indent_stack, tokens, in_newline, status].                  *)
(***************************************************************************)
SP == " "
TAB == "\t"
NL == "\n"
CR == "\r"

Letters == {"a", "b", "c", "d", "e", "f", "h", "i", "l", "n", "p", "r", "s", "t",
            "w", "x", "y", "z"}
Digits == {"0", "1", "2", "3", "4", "5", "6", "7", "8", "9"}

DigitValue(ch) ==
    CASE ch = "0" -> 0 [] ch = "1" -> 1 [] ch = "2" -> 2 [] ch = "3" -> 3
      [] ch = "4" -> 4 [] ch = "5" -> 5 [] ch = "6" -> 6 [] ch = "7" -> 7
      [] ch = "8" -> 8 [] ch = "9" -> 9

KEYWORDS == {<<"i", "f">>, <<"e", "l", "s", "e">>, <<"w", "h", "i", "l", "e">>,
             <<"p", "r", "i", "n", "t">>}

Token(type, text, num, line) == [type |-> type, text |-> text, num |-> num, line |-> line]

LexerInit == [pos |-> 0, line |-> 1, indent_stack |-> <<0>>, tokens |-> <<>>,
              in_newline |-> TRUE, status |-> "scanning"]
LexerIdle == [pos |-> 0, line |-> 1, indent_stack |-> <<0>>, tokens |-> <<>>,
              in_newline |-> TRUE, status |-> "idle"]

\* current_char at position p: the character, or "" for None.
CharAt(src, p) == IF p >= Len(src) THEN "" ELSE src[p + 1]

\* The position after the longest run of characters of set cs that starts at p.
RECURSIVE SkipWhile(_, _, _)
SkipWhile(src, p, cs) ==
    IF CharAt(src, p) \in cs THEN SkipWhile(src, p + 1, cs) ELSE p

\* The indentation of the run src[p .. q - 1]: a space counts 1, a tab 4.
RECURSIVE IndentOf(_, _, _)
IndentOf(src, p, q) ==
    IF p >= q THEN 0
    ELSE (IF src[p + 1] = TAB THEN 4 ELSE 1) + IndentOf(src, p + 1, q)

\* int(num_str) of the digits src[p .. q - 1].
RECURSIVE NumberOf(_, _, _)
NumberOf(src, p, q) ==
    IF q <= p THEN 0 ELSE NumberOf(src, p, q - 1) * 10 + DigitValue(src[q])

\* skip_comment: the position of the next newline, or the end of the source.
RECURSIVE SkipComment(_, _)
SkipComment(src, p) ==
    IF CharAt(src, p) \in {"", NL} THEN p ELSE SkipComment(src, p + 1)

AddToken(l, type, text, num) ==
    [l EXCEPT !.tokens = Append(@, Token(type, text, num, l.line))]

LexerError(l) == [l EXCEPT !.status = "error"]

\* The dedent loop of handle_indentation: one DEDENT per popped level.
RECURSIVE PopIndents(_, _)
PopIndents(l, indent_level) ==
    IF Len(l.indent_stack) > 1 /\ indent_level < l.indent_stack[Len(l.indent_stack)]
    THEN LET popped == [l EXCEPT !.indent_stack = SubSeq(@, 1, Len(@) - 1)]
         IN  PopIndents(AddToken(popped, "DEDENT", <<>>,
                                 popped.indent_stack[Len(popped.indent_stack)]),
                        indent_level)
    ELSE l

\* Mutant of handle_indentation: a dedent to a level that was never opened is accepted.
handle_indentation_lax(l, indent_level) ==
    LET top == l.indent_stack[Len(l.indent_stack)]
    IN  IF indent_level > top
        THEN AddToken([l EXCEPT !.indent_stack = Append(@, indent_level)],
                      "INDENT", <<>>, indent_level)
        ELSE IF indent_level < top THEN PopIndents(l, indent_level)
        ELSE l

\* handle_indentation and the emission of the pending tokens that follows it.
handle_indentation(l, indent_level) ==
    LET top == l.indent_stack[Len(l.indent_stack)]
    IN  IF indent_level > top
        THEN AddToken([l EXCEPT !.indent_stack = Append(@, indent_level)],
                      "INDENT", <<>>, indent_level)
        ELSE IF indent_level < top
        THEN LET d == PopIndents(l, indent_level)
             IN  IF indent_level # d.indent_stack[Len(d.indent_stack)]
                 THEN LexerError([d EXCEPT !.tokens = l.tokens])
                 ELSE d
        ELSE l

\* The scan of one token (or newline, or comment) at the current position.
ScanToken(src, l) ==
    LET p == SkipWhile(src, l.pos, {SP, TAB, CR})
        ch == CharAt(src, p)
        nx == CharAt(src, p + 1)
        at == [l EXCEPT !.pos = p]
        one(type) == [AddToken(at, type, <<ch>>, 0) EXCEPT !.pos = p + 1]
        two(type) == [AddToken(at, type, <<ch, nx>>, 0) EXCEPT !.pos = p + 2]
    IN  IF ch = "" THEN at
        ELSE IF ch = NL
        THEN [AddToken(at, "NEWLINE", <<NL>>, 0) EXCEPT
                 !.pos = p + 1, !.line = @ + 1, !.in_newline = TRUE]
        ELSE IF ch = "#"
        THEN [at EXCEPT !.pos = SkipComment(src, p)]
        ELSE IF ch = "=" THEN (IF nx = "=" THEN two("EQEQ") ELSE one("ASSIGN"))
        ELSE IF ch = "+" THEN one("PLUS")
        ELSE IF ch = "-" THEN one("MINUS")
        ELSE IF ch = "*" THEN one("MUL")
        ELSE IF ch = "/" THEN one("DIV")
        ELSE IF ch = "<" THEN (IF nx = "=" THEN two("LE") ELSE one("LT"))
        ELSE IF ch = ">" THEN (IF nx = "=" THEN two("GE") ELSE one("GT"))
        ELSE IF ch = "!" THEN (IF nx = "=" THEN two("NEQ")
                               ELSE LexerError([at EXCEPT !.pos = p + 1]))
        ELSE IF ch = "(" THEN one("LPAREN")
        ELSE IF ch = ")" THEN one("RPAREN")
        ELSE IF ch = ":" THEN one("COLON")
        ELSE IF ch \in Digits
        THEN LET q == SkipWhile(src, p, Digits)
             IN  [AddToken(at, "NUMBER", SubSeq(src, p + 1, q), NumberOf(src, p, q))
                     EXCEPT !.pos = q]
        ELSE IF ch \in Letters \cup {"_"}
        THEN LET q == SkipWhile(src, p, Letters \cup Digits \cup {"_"})
                 ident == SubSeq(src, p + 1, q)
             IN  [AddToken(at, IF ident \in KEYWORDS THEN "KEYWORD" ELSE "IDENT", ident, 0)
                     EXCEPT !.pos = q]
        ELSE LexerError(at)

\* One iteration of the main loop of tokenize (pos < len(source)).
LexIteration(src, l) ==
    IF l.in_newline
    THEN LET q == SkipWhile(src, l.pos, {SP, TAB})
             spaces == IndentOf(src, l.pos, q)
             ch == CharAt(src, q)
             at == [l EXCEPT !.pos = q]
         IN  IF ch # "" /\ ch # NL
             THEN LET h == IF ch # "#" THEN handle_indentation(at, spaces) ELSE at
                  IN  IF h.status = "error" THEN h
                      ELSE ScanToken(src, [h EXCEPT !.in_newline = FALSE])
             ELSE IF ch = NL THEN [at EXCEPT !.pos = q + 1, !.line = @ + 1]
             ELSE at
    ELSE ScanToken(src, l)

\* After the loop: a DEDENT for every level still open, then EOF.
RECURSIVE CloseIndents(_)
CloseIndents(l) ==
    IF Len(l.indent_stack) > 1
    THEN LET popped == [l EXCEPT !.indent_stack = SubSeq(@, 1, Len(@) - 1)]
         IN  CloseIndents(AddToken(popped, "DEDENT", <<>>,
                                   popped.indent_stack[Len(popped.indent_stack)]))
    ELSE l

\* Mutant of LexFinish: EOF is appended without closing the open levels.
LexFinishOpen(l) == [AddToken(l, "EOF", <<>>, 0) EXCEPT !.status = "done"]

LexFinish(l) == [AddToken(CloseIndents(l), "EOF", <<>>, 0) EXCEPT !.status = "done"]

(***************************************************************************)
(* parser.py                                                               *)
(***************************************************************************)
\* Parser.__init__
ParserInit(tokens) == [tokens |-> tokens, pos |-> 0, status |-> "created", error_at |-> 0]
ParserIdle == [tokens |-> <<>>, pos |-> 0, status |-> "idle", error_at |-> 0]

current_token(tokens, pos) ==
    IF pos >= Len(tokens) THEN Token("EOF", <<>>, 0, 1) ELSE tokens[pos + 1]

peek_token(tokens, pos) == current_token(tokens, pos + 1)

advance(tokens, pos) == IF pos < Len(tokens) THEN pos + 1 ELSE pos

\* The outcome of a parse method: the node it returns and the position reached, or
\* the ParserError it raises, located by the position of the offending token.
NoNode == [kind |-> "None"]
Parsed(pos, node) == [ok |-> TRUE, pos |-> pos, node |-> node]
ParserError(pos) == [ok |-> FALSE, pos |-> pos, node |-> NoNode]

\* expect(token_type, value): value = AnyValue stands for value=None.
AnyValue == <<>>
expect(tokens, pos, token_type, value) ==
    LET token == current_token(tokens, pos)
    IN  IF token.type # token_type THEN ParserError(pos)
        ELSE IF value # AnyValue /\ token.text # value THEN ParserError(pos)
        ELSE Parsed(advance(tokens, pos), token)

RECURSIVE skip_newlines(_, _)
skip_newlines(tokens, pos) ==
    IF current_token(tokens, pos).type = "NEWLINE"
    THEN skip_newlines(tokens, advance(tokens, pos))
    ELSE pos

CompTokens == {"LT", "GT", "LE", "GE", "EQEQ", "NEQ"}

OpOf(type) ==
    CASE type = "PLUS" -> "+" [] type = "MINUS" -> "-"
      [] type = "MUL" -> "*" [] type = "DIV" -> "/"
      [] type = "LT" -> "<" [] type = "GT" -> ">"
      [] type = "LE" -> "<=" [] type = "GE" -> ">="
      [] type = "EQEQ" -> "==" [] type = "NEQ" -> "!="

\* F applied to the outcome v of a parse method, with v evaluated once.
Once(v, F(_)) == CHOOSE r \in {F(x) : x \in {v}} : TRUE

\* The outcome of one more step after left: F(left) if left is a node, else the error.
Then(v, F(_)) == Once(v, LAMBDA left : IF left.ok THEN F(left) ELSE left)

RECURSIVE parse_expression(_, _)

parse_factor(tokens, pos) ==
    LET token == current_token(tokens, pos)
    IN  IF token.type = "NUMBER"
        THEN Parsed(advance(tokens, pos), Number(token.num, token.line))
        ELSE IF token.type = "IDENT"
        THEN Parsed(advance(tokens, pos), Var(token.text, token.line))
        ELSE IF token.type = "LPAREN"
        THEN Then(parse_expression(tokens, advance(tokens, pos)), LAMBDA e :
             Then(expect(tokens, e.pos, "RPAREN", AnyValue), LAMBDA r :
             Parsed(r.pos, e.node)))
        ELSE ParserError(pos)

\* The while True loop of parse_multiplicative; left is the outcome so far, types
\* the operator tokens the loop takes.
RECURSIVE multiplicative_loop(_, _, _)
multiplicative_loop(tokens, left, types) ==
    LET token == current_token(tokens, left.pos)
    IN  IF token.type \in types
        THEN Then(parse_factor(tokens, advance(tokens, left.pos)), LAMBDA right :
             multiplicative_loop(tokens,
                 Parsed(right.pos, BinOp(left.node, OpOf(token.type), right.node, token.line)),
                 types))
        ELSE left

\* Mutant of parse_multiplicative: '+' and '-' are taken at the level of '*' and '/'.
parse_multiplicative_flat(tokens, pos) ==
    Then(parse_factor(tokens, pos), LAMBDA left :
    multiplicative_loop(tokens, left, {"MUL", "DIV", "PLUS", "MINUS"}))

parse_multiplicative(tokens, pos) ==
    Then(parse_factor(tokens, pos), LAMBDA left :
    multiplicative_loop(tokens, left, {"MUL", "DIV"}))

\* The while True loop of parse_additive.
RECURSIVE additive_loop(_, _)
additive_loop(tokens, left) ==
    LET token == current_token(tokens, left.pos)
    IN  IF token.type \in {"PLUS", "MINUS"}
        THEN Then(parse_multiplicative(tokens, advance(tokens, left.pos)), LAMBDA right :
             additive_loop(tokens,
                 Parsed(right.pos, BinOp(left.node, OpOf(token.type), right.node, token.line))))
        ELSE left

parse_additive(tokens, pos) ==
    Then(parse_multiplicative(tokens, pos), LAMBDA left : additive_loop(tokens, left))

\* Mutant of parse_expression: a comparison may follow a comparison.
parse_expression_chain(tokens, pos) ==
    Then(parse_additive(tokens, pos), LAMBDA left :
    LET token == current_token(tokens, left.pos)
    IN  IF token.type \in CompTokens
        THEN Then(parse_expression(tokens, advance(tokens, left.pos)), LAMBDA right :
             Parsed(right.pos, BinOp(left.node, OpOf(token.type), right.node, token.line)))
        ELSE left)

parse_expression(tokens, pos) ==
    Then(parse_additive(tokens, pos), LAMBDA left :
    LET token == current_token(tokens, left.pos)
    IN  IF token.type \in CompTokens
        THEN Then(parse_additive(tokens, advance(tokens, left.pos)), LAMBDA right :
             Parsed(right.pos, BinOp(left.node, OpOf(token.type), right.node, token.line)))
        ELSE left)

parse_assignment(tokens, pos) ==
    Then(expect(tokens, pos, "IDENT", AnyValue), LAMBDA name_token :
    Then(expect(tokens, name_token.pos, "ASSIGN", AnyValue), LAMBDA eq :
    Then(parse_expression(tokens, eq.pos), LAMBDA expr :
    Parsed(expr.pos, Assign(name_token.node.text, expr.node, name_token.node.line)))))

parse_print(tokens, pos) ==
    Then(expect(tokens, pos, "KEYWORD", <<"p", "r", "i", "n", "t">>), LAMBDA print_token :
    Then(expect(tokens, print_token.pos, "LPAREN", AnyValue), LAMBDA lp :
    Then(parse_expression(tokens, lp.pos), LAMBDA expr :
    Then(expect(tokens, expr.pos, "RPAREN", AnyValue), LAMBDA rp :
    Parsed(rp.pos, PrintStmt(expr.node, print_token.node.line))))))

RECURSIVE parse_statement(_, _)

\* The statement loop of parse_block: until DEDENT or EOF.
RECURSIVE block_loop(_, _, _)
block_loop(tokens, pos, statements) ==
    IF current_token(tokens, pos).type \in {"DEDENT", "EOF"} THEN Parsed(pos, statements)
    ELSE Then(parse_statement(tokens, pos), LAMBDA stmt :
         block_loop(tokens, skip_newlines(tokens, stmt.pos), Append(statements, stmt.node)))

parse_block(tokens, pos) ==
    Then(expect(tokens, pos, "INDENT", AnyValue), LAMBDA ind :
    Then(block_loop(tokens, skip_newlines(tokens, ind.pos), <<>>), LAMBDA body :
    IF current_token(tokens, body.pos).type = "DEDENT"
    THEN Parsed(advance(tokens, body.pos), body.node)
    ELSE body))

\* cond = parse_expression(); expect(COLON); skip_newlines(); parse_block()
\* The node of the outcome is [cond, body].
parse_suite(tokens, pos) ==
    Then(parse_expression(tokens, pos), LAMBDA cond :
    Then(expect(tokens, cond.pos, "COLON", AnyValue), LAMBDA colon :
    Then(parse_block(tokens, skip_newlines(tokens, colon.pos)), LAMBDA body :
    Parsed(body.pos, [cond |-> cond.node, body |-> body.node]))))

parse_if(tokens, pos) ==
    Then(expect(tokens, pos, "KEYWORD", <<"i", "f">>), LAMBDA if_token :
    Then(parse_suite(tokens, if_token.pos), LAMBDA then :
    LET token == current_token(tokens, then.pos)
        line == if_token.node.line
    IN  IF token.type = "KEYWORD" /\ token.text = <<"e", "l", "s", "e">>
        THEN Then(expect(tokens, advance(tokens, then.pos), "COLON", AnyValue), LAMBDA colon :
             Then(parse_block(tokens, skip_newlines(tokens, colon.pos)), LAMBDA else_body :
             Parsed(else_body.pos,
                    If(then.node.cond, then.node.body, TRUE, else_body.node, line))))
        ELSE Parsed(then.pos, If(then.node.cond, then.node.body, FALSE, <<>>, line))))

parse_while(tokens, pos) ==
    Then(expect(tokens, pos, "KEYWORD", <<"w", "h", "i", "l", "e">>), LAMBDA while_token :
    Then(parse_suite(tokens, while_token.pos), LAMBDA suite :
    Parsed(suite.pos, While(suite.node.cond, suite.node.body, while_token.node.line))))

parse_statement(tokens, pos) ==
    LET token == current_token(tokens, pos)
    IN  IF token.type = "KEYWORD" /\ token.text = <<"i", "f">> THEN parse_if(tokens, pos)
        ELSE IF token.type = "KEYWORD" /\ token.text = <<"w", "h", "i", "l", "e">>
        THEN parse_while(tokens, pos)
        ELSE IF token.type = "KEYWORD" /\ token.text = <<"p", "r", "i", "n", "t">>
        THEN parse_print(tokens, pos)
        ELSE IF token.type = "IDENT" /\ peek_token(tokens, pos).type = "ASSIGN"
        THEN parse_assignment(tokens, pos)
        ELSE ParserError(pos)

\* The statement loop of parse_program: until EOF.
RECURSIVE program_loop(_, _, _)
program_loop(tokens, pos, statements) ==
    IF current_token(tokens, pos).type = "EOF" THEN Parsed(pos, statements)
    ELSE Then(parse_statement(tokens, pos), LAMBDA stmt :
         program_loop(tokens, skip_newlines(tokens, stmt.pos), Append(statements, stmt.node)))

parse_program(tokens) == program_loop(tokens, skip_newlines(tokens, 0), <<>>)

(***************************************************************************)
(* compiler.py, the command-line driver                                    *)
(***************************************************************************)
\* Lexer(source).tokenize(): the loop and what follows it; the lexer state at the
\* return, or at the LexerError.
RECURSIVE tokenize_from(_, _)
tokenize_from(src, l) ==
    IF l.status # "scanning" THEN l
    ELSE IF l.pos < Len(src)
    THEN Once(LexIteration(src, l), LAMBDA n : tokenize_from(src, n))
    ELSE LexFinish(l)

tokenize(src) == tokenize_from(src, LexerInit)

\* The process: argv (has_arg, debug, compile_only), the file system (exists and
\* text of the source file, writable for the bytecode file, written and
\* bytecode_file for what serialize_bytecode wrote), the stages completed so
\* far (done), and the exit code once the process has exited.
DriverInit(has_arg, exists, text, debug, compile_only, writable) ==
    [stage |-> "start", has_arg |-> has_arg, exists |-> exists, text |-> text,
     debug |-> debug, compile_only |-> compile_only, writable |-> writable,
     done |-> <<>>, written |-> FALSE, bytecode_file |-> CompilerInit,
     exited |-> FALSE, code |-> 0]

DriverIdle == [DriverInit(FALSE, FALSE, <<>>, FALSE, FALSE, FALSE) EXCEPT !.stage = "idle"]

\* sys.exit(code), or the end of the script for code 0.
Exit(d, code) == [d EXCEPT !.stage = "exited", !.exited = TRUE, !.code = code]

\* A stage has completed and the next one is to start.
Completed(d, stage) == [d EXCEPT !.stage = stage, !.done = Append(@, stage)]

(***************************************************************************)
(* Values of the variables a specification does not use.                   *)
(***************************************************************************)
LexUnused == source = <<>> /\ lx = LexerIdle
SemUnused == an = AnalyzerInit /\ idx = 0
OptUnused == opt = <<>> /\ opt2 = <<>>
RunUnused == vm = VMIdle /\ ref = VMIdle /\ interp = InterpIdle
ParseUnused == ps = ParserIdle
DriverUnused == drv = DriverIdle

(***************************************************************************)
(* SpecLex: Lexer.tokenize on bounded source texts.  A text is at most     *)
(* MaxLines lines; a line is leading whitespace (up to MaxIndent spaces,   *)
(* or one tab) followed by a statement, a comment or nothing.              *)
(***************************************************************************)
Spaces(k) == [i \in 1..k |-> SP]
Leads == {Spaces(k) : k \in 0..MaxIndent} \cup {<<TAB>>}
Contents == {<<"a">>, <<"#">>, <<>>}
SourceLines == {l \o c : l \in Leads, c \in Contents}

RECURSIVE JoinLines(_)
JoinLines(ls) ==
    IF Len(ls) = 1 THEN ls[1] ELSE ls[1] \o <<NL>> \o JoinLines(Tail(ls))

Sources == {JoinLines(ls) : ls \in UNION {[1..n -> SourceLines] : n \in 1..MaxLines}}

InitLex ==
    /\ pc = "lex"
    /\ source \in Sources
    /\ lx = LexerInit
    /\ ast = <<>> /\ bc = CompilerInit
    /\ SemUnused /\ OptUnused /\ RunUnused
    /\ ParseUnused /\ DriverUnused

\* while self.pos < len(self.source): one iteration
LexLoop ==
    /\ pc = "lex" /\ lx.status = "scanning"
    /\ lx.pos < Len(source)
    /\ lx' = LexIteration(source, lx)
    /\ UNCHANGED <<pc, source, ast, an, idx, opt, opt2, bc, vm, ref, interp, ps, drv>>

\* the loop has ended: close the open levels, append EOF, return the tokens
LexEnd ==
    /\ pc = "lex" /\ lx.status = "scanning"
    /\ lx.pos >= Len(source)
    /\ lx' = LexFinish(lx)
    /\ UNCHANGED <<pc, source, ast, an, idx, opt, opt2, bc, vm, ref, interp, ps, drv>>

NextLex == LexLoop \/ LexEnd

SpecLex == InitLex /\ [][NextLex]_vars

CountTokens(tokens, type) == Cardinality({i \in DOMAIN tokens : tokens[i].type = type})

\* C5: whenever tokenize returns a token stream, the stream holds as many INDENT as
\* DEDENT tokens; while scanning, the open levels are exactly the INDENTs not yet
\* matched by a DEDENT, and the end of input closes them all before EOF.
IndentationBalance ==
    /\ lx.status \in {"scanning", "done"} =>
          CountTokens(lx.tokens, "INDENT") - CountTokens(lx.tokens, "DEDENT")
              = Len(lx.indent_stack) - 1
    /\ lx.status = "done" =>
          /\ CountTokens(lx.tokens, "INDENT") = CountTokens(lx.tokens, "DEDENT")
          /\ lx.tokens[Len(lx.tokens)].type = "EOF"

\* C5 witness: a stream returned with two levels closed by DEDENTs right before EOF.
IndentationBalanceWitness ==
    /\ lx.status = "done"
    /\ CountTokens(lx.tokens, "INDENT") = 2
    /\ Len(lx.tokens) >= 3
    /\ lx.tokens[Len(lx.tokens) - 1].type = "DEDENT"
    /\ lx.tokens[Len(lx.tokens) - 2].type = "DEDENT"

(***************************************************************************)
(* SpecVM: VM.run, one instruction per step, on bounded bytecode: two      *)
(* constants are pushed, two arbitrary instructions follow, then HALT.     *)
(* The names are x and y.                                                  *)
(***************************************************************************)
Vals == 0..MaxVal
JumpTargets == {0, 3, 4, 5}
Instructions ==
    {Instruction(op, NoArg) : op \in {ADD, SUB, MUL, DIV, PRINT, HALT, POP} \cup CmpOpcodes}
    \cup {Instruction(LOAD_CONST, 0)}
    \cup {Instruction(op, n) : op \in {LOAD_NAME, STORE_NAME}, n \in {0, 1}}
    \cup {Instruction(op, t) : op \in {JUMP, JUMP_IF_FALSE}, t \in JumpTargets}

VMCodes ==
    {<<Instruction(LOAD_CONST, 0), Instruction(LOAD_CONST, 1), i, j, Instruction(HALT, NoArg)>> :
        i \in Instructions, j \in Instructions}

InitVM ==
    /\ pc = "vm"
    /\ bc \in {[code |-> c, consts |-> <<a, b>>, names |-> <<"x", "y">>] :
                  c \in VMCodes, a \in Vals, b \in Vals}
    /\ vm = VMInit
    /\ ref = VMIdle /\ interp = InterpIdle
    /\ ast = <<>>
    /\ LexUnused /\ SemUnused /\ OptUnused
    /\ ParseUnused /\ DriverUnused

Running == pc = "vm" /\ vm.status = "running" /\ vm.steps < MaxSteps
Opcode == bc.code[vm.ip + 1].opcode
Fetched(ops) == Running /\ vm.ip < Len(bc.code) /\ Opcode \in ops

VMTakeStep ==
    /\ vm' = VMStep(vm, bc.code, bc.consts, bc.names)
    /\ UNCHANGED <<pc, source, lx, ast, an, idx, opt, opt2, bc, ref, interp, ps, drv>>

StepLoadConst == Fetched({LOAD_CONST}) /\ VMTakeStep
StepLoadName == Fetched({LOAD_NAME}) /\ VMTakeStep
StepStoreName == Fetched({STORE_NAME}) /\ VMTakeStep
StepArith == Fetched({ADD, SUB, MUL, DIV}) /\ VMTakeStep
StepCompare == Fetched({CMP_LT, CMP_GT, CMP_EQ}) /\ VMTakeStep
StepJump == Fetched({JUMP}) /\ VMTakeStep
StepJumpIfFalse == Fetched({JUMP_IF_FALSE}) /\ VMTakeStep
StepPrint == Fetched({PRINT}) /\ VMTakeStep
StepHalt == Fetched({HALT}) /\ VMTakeStep
\* the final else of the dispatch: raise VMError("Unknown opcode")
StepUnknown ==
    /\ Running /\ vm.ip < Len(bc.code)
    /\ Opcode \notin {LOAD_CONST, LOAD_NAME, STORE_NAME, ADD, SUB, MUL, DIV, CMP_LT,
                      CMP_GT, CMP_EQ, JUMP, JUMP_IF_FALSE, PRINT, HALT}
    /\ VMTakeStep
\* the loop condition ip < len(code) fails: run returns
StepOffEnd == Running /\ vm.ip >= Len(bc.code) /\ VMTakeStep

NextVM ==
    \/ StepLoadConst \/ StepLoadName \/ StepStoreName \/ StepArith \/ StepCompare
    \/ StepJump \/ StepJumpIfFalse \/ StepPrint \/ StepHalt \/ StepUnknown \/ StepOffEnd

SpecVM == InitVM /\ [][NextVM]_vars

Relation(opcode, a, b) ==
    CASE opcode = CMP_LT -> a < b
      [] opcode = CMP_GT -> a > b
      [] opcode = CMP_LE -> a <= b
      [] opcode = CMP_GE -> a >= b
      [] opcode = CMP_EQ -> a = b
      [] opcode = CMP_NEQ -> a # b

\* C2: a step of the VM at any of the six comparison opcodes, with a and b the two
\* topmost stack values (b on top), replaces them by 1 if a op b holds and by 0
\* otherwise, advances ip by one and raises no fault.
ComparisonExecuted ==
    [][ (Running /\ vm.ip < Len(bc.code) /\ Opcode \in CmpOpcodes /\ Len(vm.stack) >= 2) =>
          LET n == Len(vm.stack)
              a == vm.stack[n - 1]
              b == vm.stack[n]
          IN  /\ vm'.status = "running"
              /\ vm'.ip = vm.ip + 1
              /\ vm'.stack = Append(SubSeq(vm.stack, 1, n - 2),
                                    IF Relation(Opcode, a, b) THEN 1 ELSE 0) ]_vars

(***************************************************************************)
(* SpecSem: SemanticAnalyzer.check on bounded programs of three            *)
(* statements, as the parser would build them from a source of nine lines: *)
(* a first statement (line 1), a simple statement or an if or while (line  *)
(* 2, its bodies on lines 3-4 and 6), and a last statement (line 8, its    *)
(* body on line 9).  x is assigned at top level or not at all, y only      *)
(* inside blocks or by the last statement, z never.                        *)
(***************************************************************************)
Lt(l, r, line) == BinOp(l, "<", r, line)
Plus(l, r, line) == BinOp(l, "+", r, line)

SemFirst ==
    {Assign("x", Number(1, 1), 1),
     Assign("x", Lt(Number(1, 1), Number(1, 1), 1), 1),
     PrintStmt(Number(1, 1), 1)}

SemRhs(line) ==
    {Number(1, line), Lt(Number(1, line), Number(1, line), line), Var("x", line),
     Var("z", line)}

SemInner(line) ==
    {Assign(n, e, line) : n \in {"x", "y"}, e \in SemRhs(line)}
    \cup {PrintStmt(Var("y", line), line), PrintStmt(Var("z", line), line)}

SemSecond(line) ==
    {Assign("y", Number(1, line), line), Assign("y", Var("x", line), line),
     PrintStmt(Var("z", line), line)}

SemConds(line) ==
    {Number(1, line), Var("x", line), Var("z", line),
     Lt(Var("x", line), Number(1, line), line),
     BinOp(Var("x", line), "==", Var("x", line), line)}

SemMiddle ==
    SemInner(2)
    \cup {If(c, <<t>>, FALSE, <<>>, 2) : c \in SemConds(2), t \in SemInner(3)}
    \cup {If(c, <<t>>, TRUE, <<e>>, 2) :
            c \in SemConds(2), t \in SemInner(3), e \in SemSecond(6)}
    \cup {While(c, <<t, u>>, 2) : c \in SemConds(2), t \in SemInner(3), u \in SemSecond(4)}

SemLast ==
    {PrintStmt(Var("y", 8), 8),
     PrintStmt(Plus(Var("y", 8), Number(1, 8), 8), 8),
     PrintStmt(Var("z", 8), 8),
     PrintStmt(Var("x", 8), 8),
     Assign("x", Var("y", 8), 8),
     Assign("y", Number(1, 8), 8),
     If(Var("y", 8), <<PrintStmt(Number(1, 9), 9)>>, FALSE, <<>>, 8),
     While(Lt(Var("y", 8), Number(1, 8), 8), <<PrintStmt(Var("z", 9), 9)>>, 8)}

SemPrograms == {<<f, m, l>> : f \in SemFirst, m \in SemMiddle, l \in SemLast}

InitSem ==
    /\ pc = "check"
    /\ ast \in SemPrograms
    /\ an = AnalyzerInit
    /\ idx = 0
    /\ bc = CompilerInit
    /\ LexUnused /\ OptUnused /\ RunUnused
    /\ ParseUnused /\ DriverUnused

\* analyze_program: for stmt in node.statements: self.analyze(stmt)
AnalyzeStatement ==
    /\ pc = "check" /\ idx < Len(ast)
    /\ an' = analyze_stmt(an, ast[idx + 1])
    /\ idx' = idx + 1
    /\ pc' = IF an'.raised THEN "raised" ELSE "check"
    /\ UNCHANGED <<source, lx, ast, opt, opt2, bc, vm, ref, interp, ps, drv>>

\* check: return self.errors
CheckReturn ==
    /\ pc = "check" /\ idx = Len(ast)
    /\ pc' = "checked"
    /\ UNCHANGED <<source, lx, ast, an, idx, opt, opt2, bc, vm, ref, interp, ps, drv>>

NextSem == AnalyzeStatement \/ CheckReturn

SpecSem == InitSem /\ [][NextSem]_vars

(***************************************************************************)
(* What a program says, read off the tree (not from the analyzer).         *)
(***************************************************************************)
\* The number of Var nodes named name in an expression.
RECURSIVE CountVar(_, _)
CountVar(e, name) ==
    CASE e.kind = "Var" -> IF e.name = name THEN 1 ELSE 0
      [] e.kind = "Number" -> 0
      [] e.kind = "BinOp" -> CountVar(e.left, name) + CountVar(e.right, name)

\* The expression a statement evaluates itself (not those of its bodies).
StmtExpr(stmt) == IF stmt.kind \in {"Assign", "Print"} THEN stmt.expr ELSE stmt.cond

\* The lines of the Var nodes named name in an expression.
RECURSIVE ExprRefs(_, _)
ExprRefs(e, name) ==
    CASE e.kind = "Var" -> IF e.name = name THEN {e.line} ELSE {}
      [] e.kind = "Number" -> {}
      [] e.kind = "BinOp" -> ExprRefs(e.left, name) \cup ExprRefs(e.right, name)

\* The bodies of a statement, concatenated (empty for a simple statement).
Bodies(stmt) ==
    CASE stmt.kind = "If" -> stmt.then_body \o stmt.else_body
      [] stmt.kind = "While" -> stmt.body
      [] OTHER -> <<>>

\* The lines of the references to name in a statement whose bodies hold simple statements.
StmtRefs(stmt, name) ==
    ExprRefs(StmtExpr(stmt), name)
    \cup UNION {ExprRefs(StmtExpr(Bodies(stmt)[i]), name) : i \in DOMAIN Bodies(stmt)}

AssignsIn(stmts, name) ==
    \E i \in DOMAIN stmts : stmts[i].kind = "Assign" /\ stmts[i].name = name

ErrorsAt(line) == {i \in DOMAIN an.errors : an.errors[i].line = line}
Reported(kind, name, line) == SemanticError(kind, name, line) \in Range(an.errors)

\* y is assigned only inside the block of statement 2 and referenced once by statement 3.
ScopeLeakCase ==
    /\ ast[2].kind \in {"If", "While"}
    /\ AssignsIn(Bodies(ast[2]), "y")
    /\ ~(ast[3].kind = "Assign" /\ ast[3].name = "y")
    /\ CountVar(StmtExpr(ast[3]), "y") = 1

\* C6: a name assigned only inside an if or while block and referenced after the
\* block gets exactly one SemanticError for that reference, an "Undefined variable"
\* error naming it at the line of the reference.
ScopeLeakReported ==
    (pc = "checked" /\ ScopeLeakCase) =>
        /\ Cardinality({i \in DOMAIN an.errors :
                           an.errors[i] = SemanticError("Undefined", "y", 8)}) = 1
        /\ \A i \in ErrorsAt(8) :
              an.errors[i].kind = "Undefined" => an.errors[i].name = "y"

\* C6 witness: y declared inside a while body, referenced by print(y) after the loop.
ScopeLeakWitness ==
    /\ pc = "checked" /\ ScopeLeakCase
    /\ ast[1] = Assign("x", Number(1, 1), 1)
    /\ ast[2].kind = "While"
    /\ ast[2].body[1] = Assign("y", Number(1, 3), 3)
    /\ ast[3] = PrintStmt(Var("y", 8), 8)
    /\ Reported("Undefined", "y", 8)

\* The only defect of statement 3 is one undefined variable: its expression holds one
\* Var node, reported undefined, and number literals.
SingleUndefinedDefect ==
    /\ CountVar(StmtExpr(ast[3]), "x") + CountVar(StmtExpr(ast[3]), "y")
          + CountVar(StmtExpr(ast[3]), "z") = 1
    /\ \E n \in {"x", "y", "z"} :
          CountVar(StmtExpr(ast[3]), n) = 1 /\ Reported("Undefined", n, 8)

\* C7: a statement whose only defect is one undefined variable inside a larger
\* expression yields exactly one SemanticError: the Error type of the operand makes
\* no enclosing BinOp, assignment or condition emit a further diagnostic.
CascadeSuppressed ==
    (pc = "checked" /\ SingleUndefinedDefect) => Cardinality(ErrorsAt(8)) = 1

\* C8: check never raises: Scope.declare and Scope.update are never called where
\* they raise, and every diagnostic is in the returned list.
CheckNeverRaises == ~an.raised /\ pc # "raised"

\* C8 witness: a loop body updates x of the enclosing scope and declares y in its own
\* scope, after which the program declares y at top level; check returned no error.
CheckNeverRaisesWitness ==
    /\ pc = "checked" /\ an.errors = <<>>
    /\ ast[2].kind = "While"
    /\ ast[2].body = <<Assign("x", Number(1, 3), 3), Assign("y", Number(1, 4), 4)>>
    /\ ast[3] = Assign("y", Number(1, 8), 8)
    /\ an.scopes[1]["x"].line = 3
    /\ an.scopes[1]["y"].line = 8

\* The condition of statement 2 is a number or a variable that is not Bool.
CondNotBool ==
    /\ ast[2].kind \in {"If", "While"}
    /\ \/ ast[2].cond.kind = "Number"
       \/ /\ ast[2].cond.kind = "Var"
          /\ ~(ast[2].cond.name = "x" /\ ast[1].kind = "Assign" /\ ast[1].expr.kind = "BinOp")

\* C9: an if or while whose condition is not Bool gets a "Condition must be bool"
\* error and the analysis goes on: every reference to the undefined z in its bodies
\* and in the statement after it is reported in the same list.
ConditionErrorContinues ==
    (pc = "checked" /\ CondNotBool) =>
        /\ Reported("Condition", "", 2)
        /\ \A line \in StmtRefs(ast[2], "z") \cup StmtRefs(ast[3], "z") :
              Reported("Undefined", "z", line)

\* C9 witness: if 1: with print(z) in both branches and after it, all four reported.
ConditionErrorWitness ==
    /\ pc = "checked"
    /\ ast[2] = If(Number(1, 2), <<PrintStmt(Var("z", 3), 3)>>, TRUE,
                   <<PrintStmt(Var("z", 6), 6)>>, 2)
    /\ ast[3] = PrintStmt(Var("z", 8), 8)
    /\ Reported("Condition", "", 2)
    /\ Reported("Undefined", "z", 3)
    /\ Reported("Undefined", "z", 6)
    /\ Reported("Undefined", "z", 8)

(***************************************************************************)
(* SpecOpt: Optimizer.optimize on bounded programs: x = 1 followed by a    *)
(* print of an expression of depth at most two, or by an if or a while on  *)
(* a condition of depth at most one.  The optimizer runs twice, then the   *)
(* program and its optimized form are compiled and run.                    *)
(***************************************************************************)
OptLeaves(line) == {Number(v, line) : v \in 0..MaxVal} \cup {Var("x", line)}

OptShallow(line) ==
    OptLeaves(line)
    \cup {BinOp(a, op, b, line) : a \in OptLeaves(line), op \in AllOps, b \in OptLeaves(line)}

OptInner(line) ==
    {BinOp(a, op, b, line) : a \in OptLeaves(line), op \in ArithOps, b \in OptLeaves(line)}

OptOuterOps == ArithOps \cup {"<", "=="}

OptExprs(line) ==
    OptShallow(line)
    \cup {BinOp(e, op, l, line) : e \in OptInner(line), op \in OptOuterOps, l \in OptLeaves(line)}
    \cup {BinOp(l, op, e, line) : e \in OptInner(line), op \in OptOuterOps, l \in OptLeaves(line)}

OptThen == <<PrintStmt(Plus(Var("x", 3), Number(0, 3), 3), 3)>>
OptElse == <<PrintStmt(BinOp(Number(1, 5), "/", Number(0, 5), 5), 5)>>

OptStatements ==
    {PrintStmt(e, 2) : e \in OptExprs(2)}
    \cup {If(c, OptThen, FALSE, <<>>, 2) : c \in OptShallow(2)}
    \cup {If(c, OptThen, TRUE, OptElse, 2) : c \in OptShallow(2)}
    \cup {If(c, OptThen, TRUE, <<>>, 2) : c \in OptShallow(2)}
    \cup {While(c, OptThen, 2) : c \in OptShallow(2)}

OptPrograms == {<<Assign("x", Number(1, 1), 1), st>> : st \in OptStatements}

InitOpt ==
    /\ pc = "parsed"
    /\ ast \in OptPrograms
    /\ opt = <<>> /\ opt2 = <<>>
    /\ bc = CompilerInit
    /\ vm = VMIdle /\ ref = VMIdle /\ interp = InterpIdle
    /\ LexUnused /\ SemUnused
    /\ ParseUnused /\ DriverUnused

\* ast = optimizer.optimize(ast)
Optimize ==
    /\ pc = "parsed"
    /\ opt' = optimize_program(ast)
    /\ pc' = "optimized"
    /\ UNCHANGED <<source, lx, ast, an, idx, opt2, bc, vm, ref, interp, ps, drv>>

\* the optimizer applied to its own output
Reoptimize ==
    /\ pc = "optimized"
    /\ opt2' = optimize_program(opt)
    /\ pc' = "reoptimized"
    /\ UNCHANGED <<source, lx, ast, an, idx, opt, bc, vm, ref, interp, ps, drv>>

\* compile_ast and VM.run, for the program as parsed (ref) and as optimized (vm)
RunBoth ==
    /\ pc = "reoptimized"
    /\ bc' = compile_ast(opt)
    /\ vm' = run_bytecode(bc'.code, bc'.consts, bc'.names)
    /\ ref' = LET b == compile_ast(ast) IN run_bytecode(b.code, b.consts, b.names)
    /\ pc' = "done"
    /\ UNCHANGED <<source, lx, ast, an, idx, opt, opt2, interp, ps, drv>>

NextOpt == Optimize \/ Reoptimize \/ RunBoth

SpecOpt == InitOpt /\ [][NextOpt]_vars

\* An expression holds a division whose divisor is the literal 0.
RECURSIVE HasDivByZero(_)
HasDivByZero(e) ==
    /\ e.kind = "BinOp"
    /\ \/ e.op = "/" /\ IsNumberOf(e.right, 0)
       \/ HasDivByZero(e.left)
       \/ HasDivByZero(e.right)

\* C3: wherever a division by the literal 0 occurs in the expression of a print, the
\* optimized expression still holds it as a BinOp, and the optimized program still
\* faults with "Division by zero" when the program as written does.
DivisionByZeroKept ==
    (pc = "done" /\ ast[2].kind = "Print" /\ HasDivByZero(ast[2].expr)) =>
        /\ HasDivByZero(opt[2].expr)
        /\ ref.fault = "Division by zero" => vm.fault = "Division by zero"

\* C4: optimize applied to its own output returns a structurally identical program.
OptimizerFixedPoint == pc \in {"reoptimized", "done"} => opt2 = opt

\* C4 witness: an if whose condition folded to 0 lost its then branch and kept its
\* else branch; the second run changed nothing.
OptimizerFixedPointWitness ==
    /\ pc = "reoptimized"
    /\ ast[2].kind = "If" /\ ast[2].cond.kind = "BinOp"
    /\ opt[2] = If(Number(0, 2), <<>>, TRUE, OptElse, 2)
    /\ opt2 = opt

(***************************************************************************)
(* SpecRun: compile_ast, VM.run and Interpreter.interpret on bounded       *)
(* programs: x = a, then a print, an if or a while (nested one level),     *)
(* then possibly print(x).  All nine operators occur, in code that runs    *)
(* and in code that does not.                                              *)
(***************************************************************************)
RunLeaves(line) == {Number(v, line) : v \in 0..MaxVal} \cup {Var("x", line), Var("y", line)}

RunExprs(line) ==
    RunLeaves(line)
    \cup {BinOp(a, op, b, line) : a \in RunLeaves(line), op \in AllOps, b \in RunLeaves(line)}

RunConds(line) ==
    {Var("x", line), Number(0, line), Number(1, line)}
    \cup {BinOp(Var("x", line), op, Number(b, line), line) : op \in RelOps \cup EqOps, b \in 0..MaxVal}

\* x = x op k
Bump(op, k, line) == Assign("x", BinOp(Var("x", line), op, Number(k, line), line), line)

RunCounting == {<<PrintStmt(Var("x", 3), 3), Bump(op, 1, 4)>> : op \in {"+", "-"}}

RunStatements ==
    {PrintStmt(e, 2) : e \in RunExprs(2)}
    \cup {If(c, <<PrintStmt(Var("x", 3), 3)>>, FALSE, <<>>, 2) : c \in RunConds(2)}
    \cup {If(c, <<PrintStmt(Var("x", 3), 3)>>, TRUE, <<PrintStmt(Number(0, 5), 5)>>, 2) :
            c \in RunConds(2)}
    \cup {If(c, <<While(Lt(Var("x", 3), Number(MaxVal, 3), 3),
                        <<Bump("+", 1, 4), PrintStmt(Var("x", 5), 5)>>, 3)>>,
             TRUE, <<PrintStmt(BinOp(Var("x", 7), "!=", Number(0, 7), 7), 7)>>, 2) :
            c \in RunConds(2)}
    \cup {While(c, body, 2) : c \in RunConds(2), body \in RunCounting}
    \cup {While(Lt(Var("x", 2), Number(MaxVal, 2), 2),
                <<If(c, <<Bump("+", 1, 4)>>, TRUE, <<Bump("+", 2, 6)>>, 3),
                  PrintStmt(Var("x", 7), 7)>>, 2) : c \in RunConds(3)}

RunTails == {<<>>, <<PrintStmt(Var("x", 9), 9)>>}

RunPrograms ==
    {<<Assign("x", Number(a, 1), 1), st>> \o tail :
        a \in 0..MaxVal, st \in RunStatements, tail \in RunTails}

InitRun ==
    /\ pc = "parsed"
    /\ ast \in RunPrograms
    /\ bc = CompilerInit
    /\ RunUnused
    /\ LexUnused /\ SemUnused /\ OptUnused
    /\ ParseUnused /\ DriverUnused

\* code, consts, names = compile_ast(ast)
Compile ==
    /\ pc = "parsed"
    /\ bc' = compile_ast(ast)
    /\ pc' = "compiled"
    /\ UNCHANGED <<source, lx, ast, an, idx, opt, opt2, vm, ref, interp, ps, drv>>

\* VM(code, consts, names).run()
Execute ==
    /\ pc = "compiled"
    /\ vm' = run_bytecode(bc.code, bc.consts, bc.names)
    /\ pc' = "executed"
    /\ UNCHANGED <<source, lx, ast, an, idx, opt, opt2, bc, ref, interp, ps, drv>>

\* interpret_ast(ast)
Interpret ==
    /\ pc = "executed"
    /\ interp' = interpret_ast(ast)
    /\ pc' = "done"
    /\ UNCHANGED <<source, lx, ast, an, idx, opt, opt2, bc, vm, ref, ps, drv>>

NextRun == Compile \/ Execute \/ Interpret

SpecRun == InitRun /\ [][NextRun]_vars

\* Both runs came to an end within the step and iteration bounds.
BothFinished == pc = "done" /\ vm.status # "running" /\ interp.status # "nofuel"

\* C1: a program that runs without a runtime fault, on the VM or in the Interpreter,
\* runs without a fault in the other too, and the VM prints exactly the sequence of
\* values the Interpreter prints.
OracleEquivalence ==
    (BothFinished /\ (vm.status = "halted" \/ interp.status = "ok")) =>
        /\ vm.status = "halted"
        /\ interp.status = "ok"
        /\ vm.out = interp.out

\* C1 witness: a while loop around an if ran to its end and printed at least twice.
OracleEquivalenceWitness ==
    /\ BothFinished
    /\ ast[2].kind = "While" /\ ast[2].body[1].kind = "If"
    /\ vm.status = "halted" /\ interp.status = "ok"
    /\ Len(interp.out) >= 2

JumpOpcodes == {JUMP, JUMP_IF_FALSE}

\* C10: when compile has returned, every JUMP and JUMP_IF_FALSE has an integer operand
\* t with 0 <= t < len(code); no placeholder remains.
JumpsPatched ==
    pc # "parsed" =>
        \A i \in 1..Len(bc.code) :
            bc.code[i].opcode \in JumpOpcodes =>
                /\ bc.code[i].arg # NoArg
                /\ 0 <= bc.code[i].arg
                /\ bc.code[i].arg < Len(bc.code)

\* C10 witness: an if without else is the last statement; both of its jumps are
\* patched to the index of the closing HALT.
JumpsPatchedWitness ==
    /\ pc = "compiled"
    /\ Len(ast) = 2 /\ ast[2].kind = "If" /\ ~ast[2].has_else
    /\ bc.code[Len(bc.code)].opcode = HALT
    /\ \E i, j \in 1..Len(bc.code) :
        /\ bc.code[i].opcode = JUMP_IF_FALSE /\ bc.code[i].arg = Len(bc.code) - 1
        /\ bc.code[j].opcode = JUMP /\ bc.code[j].arg = Len(bc.code) - 1

(***************************************************************************)
(* Constant pool and name pool (SpecRun).                                  *)
(***************************************************************************)
\* The literals (pool = "const") or identifiers (pool = "name") of a tree, in the
\* order of the depth-first emission of compile.
RECURSIVE ExprUses(_, _)
ExprUses(e, pool) ==
    CASE e.kind = "Number" -> IF pool = "const" THEN <<e.value>> ELSE <<>>
      [] e.kind = "Var" -> IF pool = "name" THEN <<e.name>> ELSE <<>>
      [] e.kind = "BinOp" -> ExprUses(e.left, pool) \o ExprUses(e.right, pool)

RECURSIVE BodyUses(_, _)
StmtUses(s, pool) ==
    CASE s.kind = "Assign" ->
            ExprUses(s.expr, pool) \o (IF pool = "name" THEN <<s.name>> ELSE <<>>)
      [] s.kind = "Print" -> ExprUses(s.expr, pool)
      [] s.kind = "If" ->
            ExprUses(s.cond, pool) \o BodyUses(s.then_body, pool) \o BodyUses(s.else_body, pool)
      [] s.kind = "While" -> ExprUses(s.cond, pool) \o BodyUses(s.body, pool)

BodyUses(stmts, pool) ==
    IF stmts = <<>> THEN <<>> ELSE StmtUses(Head(stmts), pool) \o BodyUses(Tail(stmts), pool)

\* A sequence without its repetitions: each value at the place of its first occurrence.
RECURSIVE FirstUses(_)
FirstUses(seq) ==
    IF seq = <<>> THEN <<>>
    ELSE LET r == FirstUses(SubSeq(seq, 1, Len(seq) - 1))
             v == seq[Len(seq)]
         IN  IF v \in Range(r) THEN r ELSE Append(r, v)

\* The pool entries that the instructions with an opcode in ops refer to, in code order.
RECURSIVE Operands(_, _, _)
Operands(code, ops, pool) ==
    IF code = <<>> THEN <<>>
    ELSE (IF Head(code).opcode \in ops THEN <<pool[Head(code).arg + 1]>> ELSE <<>>)
         \o Operands(Tail(code), ops, pool)

OperandsInPool(code, ops, pool) ==
    \A i \in 1..Len(code) :
        code[i].opcode \in ops => (0 <= code[i].arg /\ code[i].arg < Len(pool))

\* C11: after compile, neither pool holds a value twice, the entries are in order of
\* first use in the emission, and every LOAD_CONST, LOAD_NAME and STORE_NAME operand
\* is the index of the entry equal to the literal or identifier it was emitted for.
PoolsInterned ==
    pc # "parsed" =>
        /\ Cardinality(Range(bc.consts)) = Len(bc.consts)
        /\ Cardinality(Range(bc.names)) = Len(bc.names)
        /\ bc.consts = FirstUses(BodyUses(ast, "const"))
        /\ bc.names = FirstUses(BodyUses(ast, "name"))
        /\ OperandsInPool(bc.code, {LOAD_CONST}, bc.consts)
        /\ OperandsInPool(bc.code, {LOAD_NAME, STORE_NAME}, bc.names)
        /\ Operands(bc.code, {LOAD_CONST}, bc.consts) = BodyUses(ast, "const")
        /\ Operands(bc.code, {LOAD_NAME, STORE_NAME}, bc.names) = BodyUses(ast, "name")

\* C11 witness: a literal is used, then another, then the first again; the third
\* LOAD_CONST reuses the index of the first.
PoolsInternedWitness ==
    /\ pc = "compiled"
    /\ Len(bc.consts) = 2
    /\ \E i, j, k \in 1..Len(bc.code) :
        /\ i < j /\ j < k
        /\ bc.code[i].opcode = LOAD_CONST /\ bc.code[i].arg = 0
        /\ bc.code[j].opcode = LOAD_CONST /\ bc.code[j].arg = 1
        /\ bc.code[k].opcode = LOAD_CONST /\ bc.code[k].arg = 0

(***************************************************************************)
(* Faults of the VM (SpecVM).                                              *)
(***************************************************************************)
\* The number of values the instruction at ip pops.
Pops(opcode) ==
    IF opcode \in VMBinaryOpcodes THEN 2
    ELSE IF opcode \in {STORE_NAME, JUMP_IF_FALSE, PRINT} THEN 1
    ELSE 0

AtInstruction == pc = "vm" /\ vm.status = "running" /\ vm.ip < Len(bc.code)

DivisorZero == AtInstruction /\ Opcode = DIV /\ Len(vm.stack) >= 2 /\ Top(vm) = 0

NameAbsent ==
    /\ AtInstruction /\ Opcode = LOAD_NAME
    /\ bc.names[bc.code[vm.ip + 1].arg + 1] \notin DOMAIN vm.globals

StackShort == AtInstruction /\ Len(vm.stack) < Pops(Opcode)

\* The step raised VMError(msg) at the instruction it was executing and printed nothing.
Faulted(msg) ==
    /\ vm'.status = "fault" /\ vm'.fault = msg
    /\ vm'.ip = vm.ip
    /\ vm'.out = vm.out

\* C12: a DIV with divisor 0, a LOAD_NAME of a name absent from globals and a pop from
\* the empty stack each raise a VMError carrying the index of the faulting instruction;
\* after a fault no instruction is executed and nothing further is printed.
FaultFatalLocated ==
    [][/\ DivisorZero => Faulted("Division by zero")
       /\ NameAbsent => Faulted("Undefined variable")
       /\ StackShort => Faulted("Stack underflow")
       /\ (vm.status = "running" /\ vm'.status = "fault") => (vm'.ip = vm.ip /\ vm'.out = vm.out)
       /\ vm.status = "fault" => vm' = vm]_vars

\* C12 witness: LOAD_CONST a, LOAD_CONST 0, DIV, PRINT, HALT has stopped at the DIV
\* (index 2) with 'Division by zero' and has printed nothing.
FaultFatalLocatedWitness ==
    /\ pc = "vm"
    /\ bc.code[3].opcode = DIV /\ bc.code[4].opcode = PRINT
    /\ vm.status = "fault" /\ vm.fault = "Division by zero"
    /\ vm.ip = 2
    /\ vm.out = <<>>

\* C13: a run of the VM that stops without raising VMError has stopped at a HALT
\* instruction; it never stops by the instruction pointer leaving the code array.
RunStopsAtHalt ==
    (pc = "vm" /\ vm.status \in {"halted", "ended"}) =>
        /\ vm.status = "halted"
        /\ vm.ip < Len(bc.code)
        /\ bc.code[vm.ip + 1].opcode = HALT

(***************************************************************************)
(* SpecParse: Parser.parse_program on bounded token sequences: statements  *)
(* over expressions of up to three operands, if and while with well-formed *)
(* and malformed blocks, and pairs of statements and stray tokens.         *)
(***************************************************************************)
TextOf(type) ==
    CASE type = "PLUS" -> <<"+">> [] type = "MINUS" -> <<"-">>
      [] type = "MUL" -> <<"*">> [] type = "DIV" -> <<"/">>
      [] type = "LT" -> <<"<">> [] type = "GT" -> <<">">>
      [] type = "LE" -> <<"<", "=">> [] type = "GE" -> <<">", "=">>
      [] type = "EQEQ" -> <<"=", "=">> [] type = "NEQ" -> <<"!", "=">>
      [] type = "ASSIGN" -> <<"=">> [] type = "LPAREN" -> <<"(">>
      [] type = "RPAREN" -> <<")">> [] type = "COLON" -> <<":">>
      [] type = "NEWLINE" -> <<NL>>
      [] OTHER -> <<>>

Tok(type, line) == Token(type, TextOf(type), 0, line)
Ident(ch, line) == Token("IDENT", <<ch>>, 0, line)
Num(ch, line) == Token("NUMBER", <<ch>>, DigitValue(ch), line)
Kw(text, line) == Token("KEYWORD", text, 0, line)

OpTokens == {"PLUS", "MINUS", "MUL", "DIV"} \cup CompTokens

\* Expressions over the operands a, 2 and c.
FlatOf(o1, o2, line) ==
    <<Ident("a", line), Tok(o1, line), Num("2", line), Tok(o2, line), Ident("c", line)>>
LeftOf(o1, o2, line) ==
    <<Tok("LPAREN", line), Ident("a", line), Tok(o1, line), Num("2", line), Tok("RPAREN", line),
      Tok(o2, line), Ident("c", line)>>
RightOf(o1, o2, line) ==
    <<Ident("a", line), Tok(o1, line), Tok("LPAREN", line), Num("2", line), Tok(o2, line),
      Ident("c", line), Tok("RPAREN", line)>>
ExprFlat(line) == {FlatOf(o1, o2, line) : o1 \in OpTokens, o2 \in OpTokens}
ExprLeft(line) == {LeftOf(o1, o2, line) : o1 \in OpTokens, o2 \in OpTokens}
ExprRight(line) == {RightOf(o1, o2, line) : o1 \in OpTokens, o2 \in OpTokens}
ExprShort(line) ==
    {<<Ident("a", line)>>}
    \cup {<<Ident("a", line), Tok(o, line), Num("2", line)>> : o \in OpTokens}
    \cup {<<Ident("a", line), Tok(o, line)>> : o \in OpTokens}
    \cup {<<Tok("LPAREN", line), Ident("a", line), Tok(o, line), Num("2", line)>> : o \in OpTokens}

AssignTo(ch, e, line) == <<Ident(ch, line), Tok("ASSIGN", line)>> \o e
PrintOf(e, line) ==
    <<Kw(<<"p", "r", "i", "n", "t">>, line), Tok("LPAREN", line)>> \o e \o <<Tok("RPAREN", line)>>

End(line) == <<Tok("NEWLINE", line), Tok("EOF", line + 1)>>

ExprTokens ==
    {AssignTo("x", e, 1) \o End(1) :
        e \in ExprFlat(1) \cup ExprLeft(1) \cup ExprRight(1) \cup ExprShort(1)}
    \cup {PrintOf(e, 1) \o End(1) : e \in ExprFlat(1) \cup ExprShort(1)}

\* Blocks, as the lexer shapes them and otherwise.
Line(stmt, line) == stmt \o <<Tok("NEWLINE", line)>>
BlockShapes(line) ==
    LET s1 == Line(PrintOf(<<Ident("b", line)>>, line), line)
        s2 == Line(AssignTo("y", <<Num("2", line + 1)>>, line + 1), line + 1)
        ind == <<Tok("INDENT", line)>>
        ded == <<Tok("DEDENT", line + 2)>>
    IN  { ind \o s1 \o ded,
          ind \o s1 \o s2 \o ded,
          ind \o ded,
          ind \o <<Tok("NEWLINE", line)>> \o ded,
          ind \o s1,
          <<>>,
          s1,
          ind \o <<Kw(<<"i", "f">>, line), Ident("b", line), Tok("COLON", line),
                   Tok("NEWLINE", line), Tok("INDENT", line + 1)>> \o s2 \o ded \o ded }

SuiteHead(kw, line) == <<Kw(kw, line), Ident("a", line), Tok("COLON", line), Tok("NEWLINE", line)>>
ElseHead(line) == <<Kw(<<"e", "l", "s", "e">>, line), Tok("COLON", line), Tok("NEWLINE", line)>>

BlockTails ==
    { <<Tok("EOF", 9)>>, <<>>, AssignTo("x", <<Num("1", 8)>>, 8) \o End(8) }

BlockTokens ==
    {SuiteHead(<<"i", "f">>, 1) \o b1 \o t : b1 \in BlockShapes(2), t \in BlockTails}
    \cup {SuiteHead(<<"w", "h", "i", "l", "e">>, 1) \o b1 \o t : b1 \in BlockShapes(2), t \in BlockTails}
    \cup {SuiteHead(<<"i", "f">>, 1) \o b1 \o ElseHead(5) \o b2 \o t :
            b1 \in BlockShapes(2), b2 \in BlockShapes(6), t \in BlockTails}

\* Pairs of statements and stray tokens, with and without a NEWLINE between them.
Items(line) ==
    { AssignTo("x", <<Num("1", line)>>, line),
      PrintOf(<<Ident("a", line)>>, line),
      <<Kw(<<"p", "r", "i", "n", "t">>, line), Ident("a", line)>>,
      <<Ident("a", line)>>,
      <<Tok("ASSIGN", line), Num("1", line)>>,
      ElseHead(line),
      <<Num("1", line)>> }

PairTokens ==
    {i1 \o sep \o i2 \o End(2) :
        i1 \in Items(1), i2 \in Items(2), sep \in {<<>>, <<Tok("NEWLINE", 1)>>}}
    \cup {<<Tok("NEWLINE", 1)>> \o i \o End(2) : i \in Items(2)}

\* if and while statements whose condition is an expression over a, 2 and c.
CondTokens ==
    {<<Kw(kw, 1)>> \o e \o <<Tok("COLON", 1), Tok("NEWLINE", 1), Tok("INDENT", 2)>>
        \o Line(PrintOf(<<Ident("b", 2)>>, 2), 2) \o <<Tok("DEDENT", 3), Tok("EOF", 3)>> :
        kw \in {<<"i", "f">>, <<"w", "h", "i", "l", "e">>}, e \in ExprFlat(1)}

ParseInputs == ExprTokens \cup BlockTokens \cup PairTokens \cup CondTokens

InitParse ==
    /\ pc = "parse"
    /\ ps \in {ParserInit(tokens) : tokens \in ParseInputs}
    /\ ast = <<>> /\ bc = CompilerInit
    /\ LexUnused /\ SemUnused /\ OptUnused /\ RunUnused
    /\ DriverUnused

\* parse_program: statements = [], skip_newlines()
ParseStart ==
    /\ pc = "parse" /\ ps.status = "created"
    /\ ps' = [ps EXCEPT !.status = "parsing", !.pos = skip_newlines(ps.tokens, ps.pos)]
    /\ UNCHANGED <<pc, source, lx, ast, an, idx, opt, opt2, bc, vm, ref, interp, drv>>

\* one iteration of the while loop of parse_program; a ParserError leaves parse_program
ParseStatement ==
    /\ pc = "parse" /\ ps.status = "parsing"
    /\ current_token(ps.tokens, ps.pos).type # "EOF"
    /\ \E stmt \in {parse_statement(ps.tokens, ps.pos)} :
           IF stmt.ok
           THEN /\ ast' = Append(ast, stmt.node)
                /\ ps' = [ps EXCEPT !.pos = skip_newlines(ps.tokens, stmt.pos)]
                /\ pc' = pc
           ELSE /\ ast' = ast
                /\ ps' = [ps EXCEPT !.status = "error", !.error_at = stmt.pos]
                /\ pc' = "parse_error"
    /\ UNCHANGED <<source, lx, an, idx, opt, opt2, bc, vm, ref, interp, drv>>

\* the loop ends at EOF: return Program(statements)
ParseReturn ==
    /\ pc = "parse" /\ ps.status = "parsing"
    /\ current_token(ps.tokens, ps.pos).type = "EOF"
    /\ ps' = [ps EXCEPT !.status = "done"]
    /\ pc' = "parsed"
    /\ UNCHANGED <<source, lx, ast, an, idx, opt, opt2, bc, vm, ref, interp, drv>>

NextParse == ParseStart \/ ParseStatement \/ ParseReturn

SpecParse == InitParse /\ [][NextParse]_vars

(***************************************************************************)
(* C14: parse_program returns a Program only for token sequences of the    *)
(* grammar; a block is INDENT, one or more statements, DEDENT.             *)
(***************************************************************************)

\* No If or While of stmts, at any depth, has a body without a statement.
RECURSIVE BlocksNonEmpty(_)
BlocksNonEmpty(stmts) ==
    \A i \in 1..Len(stmts) :
        LET s == stmts[i]
        IN  IF s.kind = "If"
            THEN /\ s.then_body # <<>> /\ BlocksNonEmpty(s.then_body)
                 /\ s.has_else => (s.else_body # <<>> /\ BlocksNonEmpty(s.else_body))
            ELSE IF s.kind = "While"
            THEN s.body # <<>> /\ BlocksNonEmpty(s.body)
            ELSE TRUE

\* C14: when parse_program has returned a Program, every block of it holds a
\* statement and every INDENT of the token sequence has its closing DEDENT.
BlocksWellFormed ==
    ps.status = "done" =>
        /\ BlocksNonEmpty(ast)
        /\ CountTokens(ps.tokens, "INDENT") = CountTokens(ps.tokens, "DEDENT")

\* The two halves of C14 on their own, and the part of it that holds: a
\* ParserError stops parse_program at the offending token, nothing is recovered.
BlocksHoldStatement == ps.status = "done" => BlocksNonEmpty(ast)
BlocksClosed ==
    ps.status = "done" => CountTokens(ps.tokens, "INDENT") = CountTokens(ps.tokens, "DEDENT")
ParserErrorFinal == [][ps.status = "error" => UNCHANGED vars]_vars

(***************************************************************************)
(* C15: comparisons do not chain.                                          *)
(***************************************************************************)

\* The positions (from 1) of the comparison operators that follow an earlier
\* comparison operator with only operands and arithmetic operators between them.
ChainedComparisons(tokens) ==
    {j \in 1..Len(tokens) :
        /\ tokens[j].type \in CompTokens
        /\ \E i \in 1..(j - 1) :
              /\ tokens[i].type \in CompTokens
              /\ \A k \in (i + 1)..(j - 1) :
                    tokens[k].type \in {"IDENT", "NUMBER", "PLUS", "MINUS", "MUL", "DIV"}}

Min(S) == CHOOSE x \in S : \A y \in S : x <= y

\* C15: a statement with a second comparison operator in one unparenthesized
\* expression is never parsed: parse_program ends with a ParserError at that
\* operator.
ComparisonsDoNotChain ==
    (pc \in {"parsed", "parse_error"} /\ ChainedComparisons(ps.tokens) # {}) =>
        /\ pc = "parse_error"
        /\ ps.error_at + 1 = Min(ChainedComparisons(ps.tokens))

ComparisonsDoNotChainWitness ==
    /\ pc = "parse_error"
    /\ ps.tokens = AssignTo("x", <<Ident("a", 1), Tok("LT", 1), Num("2", 1), Tok("LT", 1),
                                   Ident("c", 1)>>, 1) \o End(1)
    /\ ps.error_at = 5

(***************************************************************************)
(* C16: operator precedence and associativity.                             *)
(***************************************************************************)

\* The binding strength of an operator token: '*' '/' over '+' '-' over comparisons.
Strength(type) ==
    IF type \in {"MUL", "DIV"} THEN 2 ELSE IF type \in {"PLUS", "MINUS"} THEN 1 ELSE 0

\* a o1 2 o2 c grouped to the left, (a o1 2) o2 c, and to the right, a o1 (2 o2 c).
GroupedLeft(o1, o2) ==
    BinOp(BinOp(Var(<<"a">>, 1), OpOf(o1), Number(2, 1), 1), OpOf(o2), Var(<<"c">>, 1), 1)
GroupedRight(o1, o2) ==
    BinOp(Var(<<"a">>, 1), OpOf(o1), BinOp(Number(2, 1), OpOf(o2), Var(<<"c">>, 1), 1), 1)

\* The statement is x = e or print(e), and parse_program returned its tree.
ParsedFrom(e) ==
    /\ pc = "parsed"
    /\ ps.tokens \in {AssignTo("x", e, 1) \o End(1), PrintOf(e, 1) \o End(1)}

\* The statement x = e or print(e) was given to parse_program, which has finished.
FinishedOn(e) ==
    /\ pc \in {"parsed", "parse_error"}
    /\ ps.tokens \in {AssignTo("x", e, 1) \o End(1), PrintOf(e, 1) \o End(1)}

\* C16: a o1 2 o2 c is grouped to the right exactly when o2 binds tighter than
\* o1 and to the left otherwise (same level: left associative); parentheses
\* decide the grouping whatever the operators; a comparison binds loosest.
PrecedenceAndAssociativity ==
    \A o1 \in OpTokens, o2 \in OpTokens :
        /\ (FinishedOn(FlatOf(o1, o2, 1)) /\ ~(o1 \in CompTokens /\ o2 \in CompTokens)) =>
              /\ pc = "parsed"
              /\ ast[1].expr = IF Strength(o2) > Strength(o1) THEN GroupedRight(o1, o2)
                                                             ELSE GroupedLeft(o1, o2)
        /\ FinishedOn(LeftOf(o1, o2, 1)) => (pc = "parsed" /\ ast[1].expr = GroupedLeft(o1, o2))
        /\ FinishedOn(RightOf(o1, o2, 1)) => (pc = "parsed" /\ ast[1].expr = GroupedRight(o1, o2))

\* a + 2 * c parsed as a + (2 * c), or a - 2 - c parsed as (a - 2) - c.
PrecedenceWitness ==
    \/ ParsedFrom(FlatOf("PLUS", "MUL", 1)) /\ ast[1].expr = GroupedRight("PLUS", "MUL")
    \/ ParsedFrom(FlatOf("MINUS", "MINUS", 1)) /\ ast[1].expr = GroupedLeft("MINUS", "MINUS")

\* (a + 2) * c parsed as written.
ParenthesesWitness ==
    ParsedFrom(LeftOf("PLUS", "MUL", 1)) /\ ast[1].expr = GroupedLeft("PLUS", "MUL")

(***************************************************************************)
(* SpecType: the analyzer on i = 1, b = 1 < 2, t = l op r, for operands l  *)
(* and r of every type and every operator.                                 *)
(***************************************************************************)

\* Operand expressions of each type once i is Int, b is Bool and u is undefined.
OperandsOf(type) ==
    CASE type = INT -> {Number(1, 3), Var("i", 3), Plus(Var("i", 3), Number(2, 3), 3)}
      [] type = BOOL -> {Var("b", 3), Lt(Number(1, 3), Var("i", 3), 3)}
      [] type = ERROR -> {Var("u", 3), Plus(Var("b", 3), Number(1, 3), 3)}

TypeOperands == UNION {OperandsOf(type) : type \in Types}

TypePrograms ==
    {<<Assign("i", Number(1, 1), 1),
       Assign("b", Lt(Number(1, 1), Number(2, 1), 1), 1),
       Assign("t", BinOp(l, op, r, 2), 2)>> :
        l \in TypeOperands, r \in TypeOperands, op \in AllOps}

InitType ==
    /\ pc = "check"
    /\ ast \in TypePrograms
    /\ an = AnalyzerInit
    /\ idx = 0
    /\ bc = CompilerInit
    /\ LexUnused /\ OptUnused /\ RunUnused
    /\ ParseUnused /\ DriverUnused

SpecType == InitType /\ [][NextSem]_vars

(***************************************************************************)
(* C17: typing of binary operations.                                       *)
(***************************************************************************)

\* The type the rules give to an operation on operands of the given types.
RuleType(op, left_type, right_type) ==
    IF op \in {"+", "-", "*", "/"} /\ left_type = INT /\ right_type = INT THEN INT
    ELSE IF op \in {"<", ">", "<=", ">="} /\ left_type = INT /\ right_type = INT THEN BOOL
    ELSE IF op \in {"==", "!="} /\ left_type = right_type THEN BOOL
    ELSE ERROR

\* The errors of the analyzer at a line.
ErrorsOnLine(a, line) == {k \in 1..Len(a.errors) : a.errors[k].line = line}

\* C17: with i and b declared and the assignment t = l op r next, analyze_binop
\* gives l op r the type of the rules for the types of l and r; it reports one
\* error at the node when that type is Error and none otherwise.
BinopTyping ==
    (pc = "check" /\ idx = 2) =>
        \A lt \in Types, rt \in Types :
            (ast[3].expr.left \in OperandsOf(lt) /\ ast[3].expr.right \in OperandsOf(rt)) =>
                LET node == ast[3].expr
                    l == analyze_expr(an, node.left)
                    r == analyze_expr(l.a, node.right)
                    res == analyze_binop(an, node)
                    rule == RuleType(node.op, lt, rt)
                IN  /\ l.type = lt /\ r.type = rt
                    /\ res.type = rule
                    /\ Len(res.a.errors) = Len(r.a.errors) + (IF rule = ERROR THEN 1 ELSE 0)
                    /\ Cardinality(ErrorsOnLine(res.a, node.line)) = (IF rule = ERROR THEN 1 ELSE 0)
                    /\ res.a.scopes = an.scopes

\* C17 as the analyzer shows it: after t = l op r, t is declared with the type
\* of the operation, or not declared when the type is Error.
BinopTypingDeclared ==
    (pc \in {"check", "checked"} /\ idx = 3) =>
        \A lt \in Types, rt \in Types :
            (ast[3].expr.left \in OperandsOf(lt) /\ ast[3].expr.right \in OperandsOf(rt)) =>
                LET rule == RuleType(ast[3].expr.op, lt, rt)
                    t == lookup(an.scopes, "t")
                IN  /\ t.found <=> rule # ERROR
                    /\ t.found => t.type = rule
                    /\ Cardinality(ErrorsOnLine(an, 2)) = (IF rule = ERROR THEN 1 ELSE 0)

\* u == u was analysed: both operands Error, the type Bool, the only errors
\* the two of the undefined operands.
BinopTypingWitness ==
    /\ pc = "checked"
    /\ ast[3].expr = BinOp(Var("u", 3), "==", Var("u", 3), 2)
    /\ lookup(an.scopes, "t").found /\ lookup(an.scopes, "t").type = BOOL
    /\ Len(an.errors) = 2 /\ ErrorsOnLine(an, 2) = {}

(***************************************************************************)
(* C18: assignments declare, later assignments must match.                 *)
(***************************************************************************)

\* analyze_program is about to analyse an assignment at top level.
AssignNext == pc = "check" /\ idx < Len(ast) /\ ast[idx + 1].kind = "Assign"

\* C18, first part: the first assignment to a name declares the name with the
\* type of its right-hand side.
FirstAssignmentDeclares ==
    [][ (AssignNext /\ ~lookup(an.scopes, ast[idx + 1].name).found) =>
          LET node == ast[idx + 1]
              e == analyze_expr(an, node.expr)
          IN  /\ lookup(an'.scopes, node.name).found
              /\ lookup(an'.scopes, node.name).type = e.type ]_vars

\* C18 without the right-hand sides of type Error: the first assignment to a
\* name with a right-hand side of type Int or Bool declares it with that type.
FirstAssignmentDeclaresTyped ==
    [][ (AssignNext /\ ~lookup(an.scopes, ast[idx + 1].name).found) =>
          LET node == ast[idx + 1]
              e == analyze_expr(an, node.expr)
          IN  IF e.type = ERROR
              THEN an' = e.a
              ELSE /\ lookup(an'.scopes, node.name) = [found |-> TRUE, type |-> e.type,
                                                       line |-> node.line]
                   /\ an'.errors = e.a.errors ]_vars

\* C18, second part, same scope: an assignment to a declared name with a
\* right-hand side of another type adds a type-mismatch error for the name at
\* its line and leaves every declaration as it was.
LaterAssignmentMismatch ==
    [][ (AssignNext /\ lookup(an.scopes, ast[idx + 1].name).found) =>
          LET node == ast[idx + 1]
              e == analyze_expr(an, node.expr)
              declared == lookup(an.scopes, node.name)
          IN  IF e.type # declared.type
              THEN /\ an'.errors = Append(e.a.errors,
                                          SemanticError("TypeMismatch", node.name, node.line))
                   /\ an'.scopes = an.scopes
              ELSE /\ an'.errors = e.a.errors
                   /\ lookup(an'.scopes, node.name).type = declared.type ]_vars

\* The type of a right-hand side of the blocks of statement 2 when x has the type
\* declared and the other names are not declared.
RhsType(e, declared) ==
    CASE e.kind = "Number" -> INT
      [] e.kind = "BinOp" -> BOOL
      [] e.kind = "Var" -> IF e.name = "x" THEN declared ELSE ERROR

\* C18, second part, nested scope: x is declared by statement 1, and the first
\* statement of a block of statement 2 assigns to x.  After statement 2 the
\* declared type of x is unchanged, and a type mismatch is reported for the
\* assignment exactly when its right-hand side has another type: the block
\* assigned to the x of the enclosing scope and did not declare an x of its own.
NestedAssignmentMismatch ==
    (idx >= 2 /\ ast[1].kind = "Assign" /\ ast[2].kind \in {"If", "While"}
          /\ Bodies(ast[2])[1].kind = "Assign" /\ Bodies(ast[2])[1].name = "x") =>
        LET declared == IF ast[1].expr.kind = "Number" THEN INT ELSE BOOL
            inner == Bodies(ast[2])[1]
        IN  /\ idx = 2 => /\ DOMAIN an.scopes[1] = {"x"}
                          /\ an.scopes[1]["x"].type = declared
            /\ Reported("TypeMismatch", "x", inner.line)
                  <=> RhsType(inner.expr, declared) # declared
            /\ (idx = 2 /\ RhsType(inner.expr, declared) = declared) =>
                  an.scopes[1]["x"].line = inner.line

\* x = z with z undefined is the first assignment to x, and x is not declared.
FirstAssignmentErrorCase ==
    /\ pc = "check" /\ idx = 2
    /\ ast[1] = PrintStmt(Number(1, 1), 1)
    /\ ast[2] = Assign("x", Var("z", 2), 2)
    /\ ~lookup(an.scopes, "x").found
    /\ an.errors = <<SemanticError("Undefined", "z", 2)>>

(***************************************************************************)
(* SpecDriver: the script of compiler.py (python compiler.py file [--debug]*)
(* [--compile-only]) on a few source files, one action per stage.          *)
(***************************************************************************)
PrintWord == <<"p", "r", "i", "n", "t">>

DriverTexts ==
    { <<>>,
      <<"x", "=", "1", NL>> \o PrintWord \o <<"(", "x", "+", "2", ")", NL>>,
      PrintWord \o <<"(", "1", "+", "2", ")", NL>>,
      <<"i", "f", " ", "1", "<", "2", ":", NL, " ">> \o PrintWord \o <<"(", "1", ")", NL>>,
      <<"w", "h", "i", "l", "e", " ", "1", "<", "2", ":", NL, " ">> \o PrintWord
          \o <<"(", "1", ")", NL>>,
      <<"x", "=", "$", NL>>,
      <<"x", "=", "1", NL, " ", TAB, "y", "=", "1", NL>>,
      <<"x", "=", NL>>,
      PrintWord \o <<"(", "1", NL>>,
      PrintWord \o <<"(", "z", ")", NL>>,
      <<"x", "=", "1", "+", "(", "1", "<", "2", ")", NL>>,
      <<"x", "=", "1", NL, "x", "=", "1", "<", "2", NL>>,
      <<"x", "=", "0", NL>> \o PrintWord \o <<"(", "1", "/", "x", ")", NL>>,
      <<"x", "=", "1", NL>> \o PrintWord \o <<"(", "x", "<", "=", "1", ")", NL>> }

InitDriver ==
    /\ pc = "driver"
    /\ drv \in {DriverInit(has_arg, exists, text, debug, compile_only, writable) :
                  has_arg \in BOOLEAN, exists \in BOOLEAN, text \in DriverTexts,
                  debug \in BOOLEAN, compile_only \in BOOLEAN, writable \in BOOLEAN}
    /\ ast = <<>> /\ bc = CompilerInit
    /\ LexUnused /\ SemUnused /\ OptUnused /\ RunUnused /\ ParseUnused

\* if len(sys.argv) < 2: usage, sys.exit(1)
DriverUsage ==
    /\ pc = "driver" /\ drv.stage = "start" /\ ~drv.has_arg
    /\ drv' = Exit(drv, 1)
    /\ UNCHANGED <<pc, source, lx, ast, an, idx, opt, opt2, bc, vm, ref, interp, ps>>

\* with open(filename, 'r') as f: source = f.read(); FileNotFoundError exits with 1
DriverRead ==
    /\ pc = "driver" /\ drv.stage = "start" /\ drv.has_arg
    /\ IF drv.exists
       THEN source' = drv.text /\ drv' = Completed(drv, "read")
       ELSE source' = source /\ drv' = Exit(drv, 1)
    /\ UNCHANGED <<pc, lx, ast, an, idx, opt, opt2, bc, vm, ref, interp, ps>>

\* tokens = Lexer(source).tokenize(); a LexerError is caught by except Exception
DriverLex ==
    /\ pc = "driver" /\ drv.stage = "read"
    /\ lx' = tokenize(source)
    /\ drv' = IF lx'.status = "error" THEN Exit(drv, 1) ELSE Completed(drv, "lex")
    /\ UNCHANGED <<pc, source, ast, an, idx, opt, opt2, bc, vm, ref, interp, ps>>

\* ast = Parser(tokens).parse_program(); a ParserError is caught by except Exception
DriverParse ==
    /\ pc = "driver" /\ drv.stage = "lex"
    /\ \E program \in {parse_program(lx.tokens)} :
          IF program.ok
          THEN /\ ps' = [ParserInit(lx.tokens) EXCEPT !.pos = program.pos, !.status = "done"]
               /\ ast' = program.node
               /\ drv' = Completed(drv, "parse")
          ELSE /\ ps' = [ParserInit(lx.tokens) EXCEPT !.pos = program.pos, !.status = "error",
                                                    !.error_at = program.pos]
               /\ ast' = ast
               /\ drv' = Exit(drv, 1)
    /\ UNCHANGED <<pc, source, lx, an, idx, opt, opt2, bc, vm, ref, interp>>

\* Mutant of DriverCheck: semantic errors never end the process.
DriverCheckLenient ==
    /\ pc = "driver" /\ drv.stage = "parse"
    /\ an' = check(ast)
    /\ drv' = IF an'.raised THEN Exit(drv, 1) ELSE Completed(drv, "check")
    /\ UNCHANGED <<pc, source, lx, ast, idx, opt, opt2, bc, vm, ref, interp, ps>>

\* errors = semantic.check(ast); if errors: print them; if not debug: sys.exit(1)
DriverCheck ==
    /\ pc = "driver" /\ drv.stage = "parse"
    /\ an' = check(ast)
    /\ drv' = IF an'.raised \/ (an'.errors # <<>> /\ ~drv.debug)
              THEN Exit(drv, 1)
              ELSE Completed(drv, "check")
    /\ UNCHANGED <<pc, source, lx, ast, idx, opt, opt2, bc, vm, ref, interp, ps>>

\* ast = optimizer.optimize(ast)
DriverOptimize ==
    /\ pc = "driver" /\ drv.stage = "check"
    /\ ast' = optimize_program(ast)
    /\ drv' = Completed(drv, "optimize")
    /\ UNCHANGED <<pc, source, lx, an, idx, opt, opt2, bc, vm, ref, interp, ps>>

\* code, consts, names = compile_ast(ast)
DriverCompile ==
    /\ pc = "driver" /\ drv.stage = "optimize"
    /\ bc' = compile_ast(ast)
    /\ drv' = Completed(drv, "compile")
    /\ UNCHANGED <<pc, source, lx, ast, an, idx, opt, opt2, vm, ref, interp, ps>>

\* serialize_bytecode(code, consts, names, bytecode_file); an OSError of open is
\* caught by except Exception
DriverSerialize ==
    /\ pc = "driver" /\ drv.stage = "compile"
    /\ drv' = IF drv.writable
              THEN [Completed(drv, "serialize") EXCEPT !.written = TRUE, !.bytecode_file = bc]
              ELSE Exit(drv, 1)
    /\ UNCHANGED <<pc, source, lx, ast, an, idx, opt, opt2, bc, vm, ref, interp, ps>>

\* if not compile_only: vm = VM(code, consts, names); vm.run()
\* A VMError is caught by except Exception; a run that does not end within
\* MaxSteps leaves the process running.
DriverExecute ==
    /\ pc = "driver" /\ drv.stage = "serialize"
    /\ IF drv.compile_only
       THEN vm' = vm /\ drv' = Exit(drv, 0)
       ELSE /\ vm' = run_bytecode(bc.code, bc.consts, bc.names)
            /\ drv' = IF vm'.status = "fault" THEN Exit(drv, 1)
                      ELSE IF vm'.status = "running" THEN [drv EXCEPT !.stage = "execute"]
                      ELSE Exit(Completed(drv, "execute"), 0)
    /\ UNCHANGED <<pc, source, lx, ast, an, idx, opt, opt2, bc, ref, interp, ps>>

NextDriver ==
    \/ DriverUsage \/ DriverRead \/ DriverLex \/ DriverParse \/ DriverCheck
    \/ DriverOptimize \/ DriverCompile \/ DriverSerialize \/ DriverExecute

SpecDriver == InitDriver /\ [][NextDriver]_vars

(***************************************************************************)
(* C19: pipeline ordering, abort and exit codes.                           *)
(***************************************************************************)
Stages == <<"read", "lex", "parse", "check", "optimize", "compile", "serialize", "execute">>

IsPrefix(s, t) == Len(s) <= Len(t) /\ s = SubSeq(t, 1, Len(s))

Done(stage) == stage \in Range(drv.done)

ExitedWith(code) == drv.exited /\ drv.code = code

\* Nothing after the parse has happened: no semantic check, no optimized tree
\* compiled, no bytecode file, no VM.
NothingAfterParse ==
    /\ an = AnalyzerInit /\ bc = CompilerInit
    /\ ~drv.written /\ vm = VMIdle

\* C19: the stages complete in the order lex, parse, semantic check, optimize,
\* compile, serialize, execute, none starting before the one before it has
\* completed; a LexerError or a ParserError ends the process with nothing done
\* after it; semantic errors without --debug end it before optimization and
\* compilation; each of these, a missing file and a VMError give exit code 1;
\* exit code 0 is given only when the file was read, lexed and parsed, the
\* semantic check found nothing (or --debug let it pass), the bytecode file was
\* written and the VM, if run, halted.
PipelineOrderAndAbort ==
    /\ IsPrefix(drv.done, Stages)
    /\ (lx # LexerIdle) => Done("read")
    /\ (ps # ParserIdle) => Done("lex")
    /\ ~Done("parse") => (NothingAfterParse /\ ast = <<>>)
    /\ ~Done("check") => (bc = CompilerInit /\ ~drv.written /\ vm = VMIdle)
    /\ ~Done("compile") => (bc = CompilerInit /\ ~drv.written)
    /\ ~Done("serialize") => (~drv.written /\ vm = VMIdle)
    /\ drv.written => drv.bytecode_file = bc
    /\ lx.status = "error" => (ExitedWith(1) /\ ps = ParserIdle /\ NothingAfterParse)
    /\ ps.status = "error" => (ExitedWith(1) /\ NothingAfterParse)
    /\ (an.errors # <<>> /\ ~drv.debug) =>
          (ExitedWith(1) /\ ~Done("check") /\ bc = CompilerInit /\ ~drv.written /\ vm = VMIdle)
    /\ (drv.stage # "start" /\ ~(drv.has_arg /\ drv.exists)) => (ExitedWith(1) /\ drv.done = <<>>)
    /\ vm.status = "fault" => ExitedWith(1)
    /\ ExitedWith(0) =>
          /\ drv.has_arg /\ drv.exists
          /\ lx.status = "done" /\ ps.status = "done"
          /\ ~an.raised /\ (an.errors = <<>> \/ drv.debug)
          /\ drv.written
          /\ IF drv.compile_only THEN vm = VMIdle /\ drv.done = SubSeq(Stages, 1, 7)
             ELSE vm.status = "halted" /\ drv.done = Stages

\* x = 1, print(x + 2) went through every stage, printed 3 and exited with 0.
PipelineCompleteWitness ==
    /\ ExitedWith(0) /\ drv.done = Stages
    /\ ~drv.debug /\ an.errors = <<>>
    /\ vm.out = <<3>>

\* print(z) without --debug: the semantic check reported z and the process
\* exited with 1 before optimization; x = $: exit 1 at the LexerError.
PipelineAbortWitness ==
    \/ /\ ExitedWith(1) /\ drv.done = <<"read", "lex", "parse">>
       /\ Len(an.errors) = 1 /\ bc = CompilerInit
    \/ /\ ExitedWith(1) /\ drv.done = <<"read">> /\ lx.status = "error"

\* --debug with x = 1 + (1 < 2): the semantic error is printed and the process
\* goes on to run the program and exits with 0.
DebugRunsOnWitness ==
    /\ ExitedWith(0) /\ drv.debug /\ an.errors # <<>> /\ drv.done = Stages

(***************************************************************************)
(* C20: constant folding and the arithmetic of the VM.                     *)
(***************************************************************************)

\* Statement 2 prints an operation on two number literals, not a division by 0.
PrintsConstantBinOp ==
    /\ ast[2].kind = "Print" /\ ast[2].expr.kind = "BinOp"
    /\ IsNumber(ast[2].expr.left) /\ IsNumber(ast[2].expr.right)
    /\ ~(ast[2].expr.op = "/" /\ ast[2].expr.right.value = 0)

\* C20: an operation on two number literals is folded to the Number of the
\* value that the VM computes (and prints) for the operation as written.
FoldingMatchesVM ==
    (pc = "done" /\ PrintsConstantBinOp) =>
        /\ IsNumber(opt[2].expr)
        /\ ref.status = "halted"
        /\ ref.out = <<opt[2].expr.value>>

\* C20 for the operators the VM executes: + - * / < > ==.
FoldingMatchesVMExecuted ==
    (pc = "done" /\ PrintsConstantBinOp /\ ast[2].expr.op \in ArithOps \cup {"<", ">", "=="}) =>
        /\ IsNumber(opt[2].expr)
        /\ ref.status = "halted"
        /\ ref.out = <<opt[2].expr.value>>

\* The same for an expression folded in two steps, negative values included:
\* whenever the optimizer leaves a Number for an expression over literals and
\* the operators the VM executes, the VM prints that value for the expression
\* as written.
RECURSIVE OverLiterals(_)
OverLiterals(e) ==
    \/ IsNumber(e)
    \/ /\ e.kind = "BinOp" /\ e.op \in ArithOps \cup {"<", ">", "=="}
       /\ OverLiterals(e.left) /\ OverLiterals(e.right)

NestedFoldingMatchesVM ==
    (pc = "done" /\ ast[2].kind = "Print" /\ OverLiterals(ast[2].expr)
          /\ IsNumber(opt[2].expr) /\ ref.status = "halted") =>
        ref.out = <<opt[2].expr.value>>

\* print(1 <= 2) is folded to print(1); the VM faults on the program as written.
FoldedButNotExecuted ==
    /\ pc = "done"
    /\ ast[2] = PrintStmt(BinOp(Number(1, 2), "<=", Number(2, 2), 2), 2)
    /\ opt[2] = PrintStmt(Number(1, 2), 2)
    /\ ref.status = "fault" /\ ref.out = <<>>
    /\ vm.out = <<1>>

\* print((0 - 1) / 2) is folded to print(-1), the floor, as the VM computes it.
FlooredDivisionFolded ==
    /\ pc = "done"
    /\ ast[2].expr = BinOp(BinOp(Number(0, 2), "-", Number(1, 2), 2), "/", Number(2, 2), 2)
    /\ opt[2].expr = Number(0 - 1, 2)
    /\ ref.out = <<0 - 1>>

(***************************************************************************)
(* C21: dead-branch elimination.                                           *)
(***************************************************************************)

\* The bodies of SpecOpt as the optimizer leaves them: print(x + 0) becomes
\* print(x), print(1 / 0) stays.
OptThenOptimized == <<PrintStmt(Var("x", 3), 3)>>
OptElseOptimized == OptElse

\* C21: in the optimized program, an If on a nonzero Number has the optimized
\* then branch and no else branch; an If on the Number 0 has an empty then body
\* and the optimized else branch if the If had one, no else branch otherwise; a
\* While on the Number 0 has an empty body; a While on a nonzero Number has the
\* optimized body.
DeadBranchElimination ==
    (pc \in {"optimized", "reoptimized", "done"} /\ ast[2].kind \in {"If", "While"}
          /\ IsNumber(opt[2].cond)) =>
        IF ast[2].kind = "If"
        THEN IF opt[2].cond.value # 0
             THEN opt[2] = If(opt[2].cond, OptThenOptimized, FALSE, <<>>, 2)
             ELSE IF ast[2].has_else /\ ast[2].else_body # <<>>
             THEN opt[2] = If(opt[2].cond, <<>>, TRUE, OptElseOptimized, 2)
             ELSE opt[2] = If(opt[2].cond, <<>>, FALSE, <<>>, 2)
        ELSE IF opt[2].cond.value = 0
             THEN opt[2] = While(opt[2].cond, <<>>, 2)
             ELSE opt[2] = While(opt[2].cond, OptThenOptimized, 2)

\* if 2 > 1 with an else branch: the condition folded to 1, the else is gone.
DeadBranchWitness ==
    /\ pc = "optimized"
    /\ ast[2] = If(BinOp(Number(2, 2), ">", Number(1, 2), 2), OptThen, TRUE, OptElse, 2)
    /\ opt[2] = If(Number(1, 2), OptThenOptimized, FALSE, <<>>, 2)

\* while 1 < 1: the condition folded to 0, the body is gone.
DeadLoopWitness ==
    /\ pc = "optimized"
    /\ ast[2] = While(BinOp(Number(1, 2), "<", Number(1, 2), 2), OptThen, 2)
    /\ opt[2] = While(Number(0, 2), <<>>, 2)

(***************************************************************************)
(* C22: STORE_NAME and LOAD_NAME.                                          *)
(***************************************************************************)
OperandName == bc.names[bc.code[vm.ip + 1].arg + 1]

\* C22: STORE_NAME(i) on a stack that is not empty pops the top value and binds
\* it to names[i], every other binding and the rest of the stack unchanged;
\* LOAD_NAME(i) of a bound name pushes the value bound to names[i] (the one
\* the last STORE_NAME(i) left there) and leaves globals unchanged.
StoreAndLoadName ==
    [][ /\ (Fetched({STORE_NAME}) /\ vm.stack # <<>>) =>
              /\ vm'.status = "running" /\ vm'.ip = vm.ip + 1 /\ vm'.out = vm.out
              /\ vm'.stack = SubSeq(vm.stack, 1, Len(vm.stack) - 1)
              /\ DOMAIN vm'.globals = DOMAIN vm.globals \cup {OperandName}
              /\ vm'.globals[OperandName] = vm.stack[Len(vm.stack)]
              /\ \A n \in DOMAIN vm.globals \ {OperandName} : vm'.globals[n] = vm.globals[n]
        /\ (Fetched({LOAD_NAME}) /\ OperandName \in DOMAIN vm.globals) =>
              /\ vm'.status = "running" /\ vm'.ip = vm.ip + 1 /\ vm'.out = vm.out
              /\ vm'.stack = Append(vm.stack, vm.globals[OperandName])
              /\ vm'.globals = vm.globals ]_vars

\* STORE_NAME x then STORE_NAME y: y got the value under the top, x kept its own.
StoreAndLoadNameWitness ==
    /\ pc = "vm" /\ vm.ip = 4 /\ vm.stack = <<>>
    /\ bc.code[3] = Instruction(STORE_NAME, 0) /\ bc.code[4] = Instruction(STORE_NAME, 1)
    /\ bc.consts = <<1, 2>>
    /\ DOMAIN vm.globals = {"x", "y"}
    /\ vm.globals["x"] = 2 /\ vm.globals["y"] = 1

\* STORE_NAME x then LOAD_NAME x: the stored value is back on the stack.
StoreThenLoadWitness ==
    /\ pc = "vm" /\ vm.ip = 4
    /\ bc.code[3] = Instruction(STORE_NAME, 0) /\ bc.code[4] = Instruction(LOAD_NAME, 0)
    /\ bc.consts = <<1, 2>>
    /\ vm.stack = <<1, 2>> /\ vm.globals["x"] = 2

\* STORE_NAME x twice: the second value overwrote the first.
StoreOverwritesWitness ==
    /\ pc = "vm" /\ vm.ip = 4
    /\ bc.code[3] = Instruction(STORE_NAME, 0) /\ bc.code[4] = Instruction(STORE_NAME, 0)
    /\ bc.consts = <<1, 2>>
    /\ DOMAIN vm.globals = {"x"} /\ vm.globals["x"] = 1

(***************************************************************************)
(* C23: JUMP and JUMP_IF_FALSE.                                            *)
(***************************************************************************)
OperandTarget == bc.code[vm.ip + 1].arg

\* Instruction 2 (the first after the two LOAD_CONST) jumps over instruction 3,
\* and the jump is taken: a JUMP, or a JUMP_IF_FALSE when the second constant is 0.
JumpsOverNext ==
    /\ bc.code[3].arg \in {4, 5}
    /\ \/ bc.code[3].opcode = JUMP
       \/ bc.code[3].opcode = JUMP_IF_FALSE /\ bc.consts[2] = 0

\* C23: JUMP_IF_FALSE(t) on a stack that is not empty pops the top value and
\* sets ip to t if the value is 0, to ip + 1 otherwise; JUMP(t) sets ip to t
\* and leaves the stack as it was; neither changes globals or output; and when
\* a taken jump passes over an instruction, that instruction leaves no trace:
\* the stack is the one the jump left, and nothing is bound or printed.
JumpSemantics ==
    /\ [][ /\ (Fetched({JUMP_IF_FALSE}) /\ vm.stack # <<>>) =>
                 /\ vm'.status = "running"
                 /\ vm'.stack = SubSeq(vm.stack, 1, Len(vm.stack) - 1)
                 /\ vm'.ip = IF vm.stack[Len(vm.stack)] = 0 THEN OperandTarget ELSE vm.ip + 1
                 /\ vm'.globals = vm.globals /\ vm'.out = vm.out
           /\ Fetched({JUMP}) =>
                 /\ vm'.status = "running"
                 /\ vm'.ip = OperandTarget
                 /\ vm'.stack = vm.stack
                 /\ vm'.globals = vm.globals /\ vm'.out = vm.out ]_vars
    /\ []((pc = "vm" /\ JumpsOverNext /\ vm.ip > 2) =>
             /\ vm.ip = bc.code[3].arg
             /\ vm.stack = IF bc.code[3].opcode = JUMP THEN bc.consts ELSE <<bc.consts[1]>>
             /\ vm.globals = NoGlobals /\ vm.out = <<>>
             /\ vm.steps <= 4)

\* JUMP_IF_FALSE 4 on the value 0 passed over a PRINT and reached HALT: nothing
\* was printed and the first constant is still on the stack.
JumpSemanticsWitness ==
    /\ pc = "vm" /\ vm.status = "halted" /\ vm.ip = 4
    /\ bc.code[3] = Instruction(JUMP_IF_FALSE, 4) /\ bc.code[4] = Instruction(PRINT, NoArg)
    /\ bc.consts = <<1, 0>>
    /\ vm.stack = <<1>> /\ vm.out = <<>>

\* JUMP_IF_FALSE 4 on the value 2 went on to the PRINT.
JumpNotTakenWitness ==
    /\ pc = "vm" /\ vm.status = "halted" /\ vm.ip = 4
    /\ bc.code[3] = Instruction(JUMP_IF_FALSE, 4) /\ bc.code[4] = Instruction(PRINT, NoArg)
    /\ bc.consts = <<1, 2>>
    /\ vm.stack = <<>> /\ vm.out = <<1>>

(***************************************************************************)
(* C24: the indentation state machine of the lexer.                        *)
(***************************************************************************)

\* The lexer is at the start of a line that holds more than blanks and is not
\* a comment.
LineFirst == SkipWhile(source, lx.pos, {SP, TAB})
AtCodeLine ==
    /\ pc = "lex" /\ lx.status = "scanning" /\ lx.pos < Len(source)
    /\ lx.in_newline
    /\ CharAt(source, LineFirst) \notin {"", NL, "#"}

\* The indent of that line: a space counts 1, a tab 4.
LineIndent == IndentOf(source, lx.pos, LineFirst)

\* The levels of a stack that are not above n (the stack after the pops).
LevelsUpTo(stack, n) == SubSeq(stack, 1, Cardinality({i \in DOMAIN stack : stack[i] <= n}))

StrictlyIncreasing(stack) ==
    /\ stack # <<>> /\ stack[1] = 0
    /\ \A i \in 1..(Len(stack) - 1) : stack[i] < stack[i + 1]

\* The tokens the step appended.
NewTokens == SubSeq(lx'.tokens, Len(lx.tokens) + 1, Len(lx'.tokens))

\* C24: the indent stack is always strictly increasing from 0, and at each
\* line of code of indent n: if n is above the top, n is pushed and one INDENT
\* emitted; if n is below it, the levels above n are popped with one DEDENT
\* each, and a LexerError is raised unless the top is then n; if n is the
\* top, the stack stays and neither token is emitted.
IndentationMachine ==
    /\ [](pc = "lex" => StrictlyIncreasing(lx.indent_stack))
    /\ [][ AtCodeLine =>
             LET n == LineIndent
                 stack == lx.indent_stack
                 top == stack[Len(stack)]
                 kept == LevelsUpTo(stack, n)
             IN  IF n > top
                 THEN /\ lx'.status = "scanning"
                      /\ lx'.indent_stack = Append(stack, n)
                      /\ NewTokens[1].type = "INDENT"
                      /\ CountTokens(NewTokens, "INDENT") = 1
                      /\ CountTokens(NewTokens, "DEDENT") = 0
                 ELSE IF n < top
                 THEN IF kept[Len(kept)] # n
                      THEN lx'.status = "error" /\ lx'.tokens = lx.tokens
                      ELSE /\ lx'.status = "scanning"
                           /\ lx'.indent_stack = kept
                           /\ CountTokens(NewTokens, "DEDENT") = Len(stack) - Len(kept)
                           /\ \A i \in 1..(Len(stack) - Len(kept)) : NewTokens[i].type = "DEDENT"
                           /\ CountTokens(NewTokens, "INDENT") = 0
                 ELSE /\ lx'.status = "scanning"
                      /\ lx'.indent_stack = stack
                      /\ CountTokens(NewTokens, "INDENT") = 0
                      /\ CountTokens(NewTokens, "DEDENT") = 0 ]_vars

\* Lines of indent 1, 2 and 0: two levels were pushed and both popped by the
\* third line, with two DEDENTs.
IndentationMachineWitness ==
    /\ pc = "lex" /\ lx.status = "scanning"
    /\ source = <<SP, "a", NL, SP, SP, "a", NL, "a">>
    /\ lx.indent_stack = <<0>>
    /\ CountTokens(lx.tokens, "INDENT") = 2 /\ CountTokens(lx.tokens, "DEDENT") = 2

\* Lines of indent 2 and 1: the dedent to a level never opened is a LexerError.
IndentationErrorWitness ==
    /\ pc = "lex" /\ lx.status = "error"
    /\ source = <<SP, SP, "a", NL, SP, "a">>
    /\ lx.indent_stack = <<0>>

(***************************************************************************)
(* SpecExec: the programs of SpecRun, and prints of an expression nested   *)
(* on both sides, are compiled and the code is run by VM.run one           *)
(* instruction per step, so that the path of ip through the compiled code  *)
(* can be followed.                                                        *)
(***************************************************************************)
\* x = 1, print((x o1 1) o2 (2 o3 x))
ExecNested ==
    {<<Assign("x", Number(1, 1), 1),
       PrintStmt(BinOp(BinOp(Var("x", 2), o1, Number(1, 2), 2), o2,
                       BinOp(Number(2, 2), o3, Var("x", 2), 2), 2), 2)>> :
        o1 \in {"+", "/", "<"}, o2 \in {"-", "*", "=="}, o3 \in {"+", "/", ">"}}

ExecPrograms == RunPrograms \cup ExecNested

InitExec ==
    /\ pc = "parsed"
    /\ ast \in ExecPrograms
    /\ bc = CompilerInit
    /\ RunUnused
    /\ LexUnused /\ SemUnused /\ OptUnused
    /\ ParseUnused /\ DriverUnused

\* code, consts, names = compile_ast(ast); vm = VM(code, consts, names); ip = 0
CompileAndLoad ==
    /\ pc = "parsed"
    /\ bc' = compile_ast(ast)
    /\ vm' = VMInit
    /\ pc' = "vm"
    /\ UNCHANGED <<source, lx, ast, an, idx, opt, opt2, ref, interp, ps, drv>>

NextExec ==
    \/ CompileAndLoad
    \/ StepLoadConst \/ StepLoadName \/ StepStoreName \/ StepArith \/ StepCompare
    \/ StepJump \/ StepJumpIfFalse \/ StepPrint \/ StepHalt \/ StepUnknown

SpecExec == InitExec /\ [][NextExec]_vars

(***************************************************************************)
(* C25: the code layout of If.                                             *)
(***************************************************************************)

\* The indices of the code of an If node compiled from compiler state c: the
\* condition starts at start, JUMP_IF_FALSE is at jif, the then body follows
\* up to the JUMP at jmp, the else body follows up to end (exclusive).
IfSite(c, node) ==
    LET c1 == compile_expr(c, node.cond)
        c3 == compile_body(emit(c1, JUMP_IF_FALSE, NoArg), node.then_body)
        c5 == emit(c3, JUMP, NoArg)
        c6 == IF ElseTruthy(node) THEN compile_body(c5, node.else_body) ELSE c5
    IN  [start |-> Len(c.code), jif |-> Len(c1.code), jmp |-> Len(c3.code),
         end |-> Len(c6.code), has_else |-> ElseTruthy(node),
         cond |-> SubSeq(c1.code, Len(c.code) + 1, Len(c1.code)),
         then_code |-> SubSeq(c3.code, Len(c1.code) + 2, Len(c3.code)),
         else_code |-> SubSeq(c6.code, Len(c3.code) + 2, Len(c6.code))]

\* The compiler state in front of the second statement.
BeforeSecond == compile_stmt(CompilerInit, ast[1])

\* The If nodes of the program: the second statement, the first statement of
\* the body of a While, or none.
IfSites ==
    IF ast[2].kind = "If" THEN {IfSite(BeforeSecond, ast[2])}
    ELSE IF ast[2].kind = "While" /\ ast[2].body[1].kind = "If"
    THEN {IfSite(emit(compile_expr(BeforeSecond, ast[2].cond), JUMP_IF_FALSE, NoArg),
                 ast[2].body[1])}
    ELSE {}

ThenRange(s) == (s.jif + 1)..(s.jmp - 1)
ElseRange(s) == (s.jmp + 1)..(s.end - 1)

IfLaidOut(s) ==
    /\ SubSeq(bc.code, s.start + 1, s.jif) = s.cond
    /\ bc.code[s.jif + 1] = Instruction(JUMP_IF_FALSE, s.jmp + 1)
    /\ SubSeq(bc.code, s.jif + 2, s.jmp) = s.then_code
    /\ bc.code[s.jmp + 1] = Instruction(JUMP, s.end)
    /\ SubSeq(bc.code, s.jmp + 2, s.end) = s.else_code
    /\ s.has_else <=> s.end > s.jmp + 1

\* A step of the run of the machine.
VMSteps == pc = "vm" /\ vm' # vm

\* C25: the code of every If is the condition code, JUMP_IF_FALSE, the then
\* body, a JUMP (also without else) and the else body; JUMP_IF_FALSE targets
\* the index after the JUMP, the JUMP the index after the else body.  In the
\* run JUMP_IF_FALSE goes on to the then body when the condition value is
\* not 0 and to the else body when it is 0; the then body is entered in no
\* other way and left only through the JUMP, which passes over the else
\* body; the else body is entered in no other way.
IfLayout ==
    /\ [](pc = "vm" => \A s \in IfSites : IfLaidOut(s))
    /\ [][VMSteps =>
            \A s \in IfSites :
                /\ (vm.ip = s.jif /\ vm'.status = "running") =>
                      vm'.ip = IF Top(vm) # 0 THEN s.jif + 1 ELSE s.jmp + 1
                /\ (vm.ip \in ThenRange(s) /\ vm'.status = "running") =>
                      vm'.ip \in ThenRange(s) \cup {s.jmp}
                /\ vm.ip = s.jmp => vm'.ip = s.end
                /\ (vm.ip \in ElseRange(s) /\ vm'.status = "running") =>
                      vm'.ip \in ElseRange(s) \cup {s.end}
                /\ (vm.ip \notin ThenRange(s) /\ vm'.ip \in ThenRange(s)) =>
                      vm.ip = s.jif /\ Top(vm) # 0
                /\ (vm.ip \notin ElseRange(s) /\ vm'.ip \in ElseRange(s)) =>
                      vm.ip = s.jif /\ Top(vm) = 0 ]_vars

\* x = 1, if x: print(x) else: print(0): the ten instructions in their
\* places, and the run has taken the then branch and is past the else body.
IfLayoutWitness ==
    /\ pc = "vm" /\ vm.ip = 9 /\ vm.out = <<1>>
    /\ ast = <<Assign("x", Number(1, 1), 1),
               If(Var("x", 2), <<PrintStmt(Var("x", 3), 3)>>, TRUE,
                  <<PrintStmt(Number(0, 5), 5)>>, 2)>>
    /\ bc.code = <<Instruction(LOAD_CONST, 0), Instruction(STORE_NAME, 0),
                   Instruction(LOAD_NAME, 0), Instruction(JUMP_IF_FALSE, 7),
                   Instruction(LOAD_NAME, 0), Instruction(PRINT, NoArg),
                   Instruction(JUMP, 9),
                   Instruction(LOAD_CONST, 1), Instruction(PRINT, NoArg),
                   Instruction(HALT, NoArg)>>

\* x = 0, if x: print(x), no else: JUMP_IF_FALSE and the JUMP both lead to the
\* instruction after the JUMP, and the run printed nothing.
IfWithoutElseWitness ==
    /\ pc = "vm" /\ vm.status = "halted" /\ vm.out = <<>>
    /\ ast = <<Assign("x", Number(0, 1), 1),
               If(Var("x", 2), <<PrintStmt(Var("x", 3), 3)>>, FALSE, <<>>, 2)>>
    /\ bc.code = <<Instruction(LOAD_CONST, 0), Instruction(STORE_NAME, 0),
                   Instruction(LOAD_NAME, 0), Instruction(JUMP_IF_FALSE, 7),
                   Instruction(LOAD_NAME, 0), Instruction(PRINT, NoArg),
                   Instruction(JUMP, 7), Instruction(HALT, NoArg)>>

(***************************************************************************)
(* C26: the code layout of While.                                          *)
(***************************************************************************)

\* The indices of the code of a While node compiled from compiler state c:
\* the condition starts at start (loop_start), JUMP_IF_FALSE is at jif, the
\* body follows up to the back-jump at jmp; end is the index after it.
WhileSite(c, node) ==
    LET c1 == compile_expr(c, node.cond)
        c3 == compile_body(emit(c1, JUMP_IF_FALSE, NoArg), node.body)
    IN  [start |-> Len(c.code), jif |-> Len(c1.code), jmp |-> Len(c3.code),
         end |-> Len(c3.code) + 1,
         cond |-> SubSeq(c1.code, Len(c.code) + 1, Len(c1.code)),
         body |-> SubSeq(c3.code, Len(c1.code) + 2, Len(c3.code))]

\* The While nodes of the program: the second statement, the first statement
\* of the then body of an If, or none.
WhileSites ==
    IF ast[2].kind = "While" THEN {WhileSite(BeforeSecond, ast[2])}
    ELSE IF ast[2].kind = "If" /\ ast[2].then_body[1].kind = "While"
    THEN {WhileSite(emit(compile_expr(BeforeSecond, ast[2].cond), JUMP_IF_FALSE, NoArg),
                    ast[2].then_body[1])}
    ELSE {}

CondRange(s) == s.start..(s.jif - 1)
BodyRange(s) == (s.jif + 1)..(s.jmp - 1)

WhileLaidOut(s) ==
    /\ s.start < s.jif /\ s.jif < s.jmp
    /\ SubSeq(bc.code, s.start + 1, s.jif) = s.cond
    /\ bc.code[s.jif + 1] = Instruction(JUMP_IF_FALSE, s.end)
    /\ SubSeq(bc.code, s.jif + 2, s.jmp) = s.body
    /\ bc.code[s.jmp + 1] = Instruction(JUMP, s.start)

\* C26: the code of every While is the condition code from loop_start, a
\* JUMP_IF_FALSE to the index after the back-jump, the body and
\* JUMP(loop_start).  In the run the condition code is run through before
\* JUMP_IF_FALSE, which goes on to the body when the value is not 0 and to
\* the instruction after the loop when it is 0; the body is entered in no
\* other way and is followed by the back-jump to the condition; the loop is
\* left only at JUMP_IF_FALSE on the value 0.
WhileLayout ==
    /\ [](pc = "vm" => \A s \in WhileSites : WhileLaidOut(s))
    /\ [][VMSteps =>
            \A s \in WhileSites :
                /\ (vm.ip \in CondRange(s) /\ vm'.status = "running") =>
                      vm'.ip \in CondRange(s) \cup {s.jif}
                /\ (vm.ip = s.jif /\ vm'.status = "running") =>
                      vm'.ip = IF Top(vm) # 0 THEN s.jif + 1 ELSE s.end
                /\ (vm.ip \in BodyRange(s) /\ vm'.status = "running") =>
                      vm'.ip \in BodyRange(s) \cup {s.jmp}
                /\ vm.ip = s.jmp => vm'.ip = s.start
                /\ (vm.ip \notin BodyRange(s) /\ vm'.ip \in BodyRange(s)) =>
                      vm.ip = s.jif /\ Top(vm) # 0
                /\ (vm.ip \in s.start..s.jmp /\ vm'.ip \notin s.start..s.jmp) =>
                      vm.ip = s.jif /\ Top(vm) = 0 /\ vm'.ip = s.end ]_vars

\* x = 0, while x < 2: print(x), x = x + 1, then print(x): the loop body ran
\* twice, the third evaluation of the condition gave 0 and the run went on
\* behind the loop.
WhileLayoutWitness ==
    /\ pc = "vm" /\ vm.status = "halted" /\ vm.out = <<0, 1, 2>>
    /\ ast = <<Assign("x", Number(0, 1), 1),
               While(Lt(Var("x", 2), Number(2, 2), 2),
                     <<PrintStmt(Var("x", 3), 3), Bump("+", 1, 4)>>, 2),
               PrintStmt(Var("x", 9), 9)>>
    /\ bc.code = <<Instruction(LOAD_CONST, 0), Instruction(STORE_NAME, 0),
                   Instruction(LOAD_NAME, 0), Instruction(LOAD_CONST, 1),
                   Instruction(CMP_LT, NoArg), Instruction(JUMP_IF_FALSE, 13),
                   Instruction(LOAD_NAME, 0), Instruction(PRINT, NoArg),
                   Instruction(LOAD_NAME, 0), Instruction(LOAD_CONST, 2),
                   Instruction(ADD, NoArg), Instruction(STORE_NAME, 0),
                   Instruction(JUMP, 2),
                   Instruction(LOAD_NAME, 0), Instruction(PRINT, NoArg),
                   Instruction(HALT, NoArg)>>

\* x = 2 and the same loop: the condition is 0 at once and the body never runs.
WhileZeroIterationsWitness ==
    /\ pc = "vm" /\ vm.status = "halted" /\ vm.out = <<2>> /\ vm.steps = 9
    /\ ast[1] = Assign("x", Number(2, 1), 1)
    /\ ast[2] = While(Lt(Var("x", 2), Number(2, 2), 2),
                      <<PrintStmt(Var("x", 3), 3), Bump("+", 1, 4)>>, 2)

(***************************************************************************)
(* C27: the optimizer and the observable behaviour of the compiled code.   *)
(***************************************************************************)

\* Both runs of SpecOpt came to an end within the step bound.
BothRunsEnded == pc = "done" /\ vm.status # "running" /\ ref.status # "running"

\* C27: the code compiled from optimize(P) prints the same values and ends
\* with the same outcome (halt, or a fault with the same message) as the code
\* compiled from P.
OptimizerPreservesBehaviour ==
    BothRunsEnded =>
        /\ vm.out = ref.out
        /\ vm.status = ref.status
        /\ vm.fault = ref.fault

\* What does hold: a program that halts as written halts when optimized and
\* prints the same values, so no rewrite introduces a fault into a run that
\* had none (the message of a fault can change).
OptimizerPreservesHaltingRuns ==
    BothRunsEnded =>
        /\ ref.status = "halted" => (vm.status = "halted" /\ vm.out = ref.out)
        /\ vm.status = "fault" => ref.status = "fault"

\* x = 1, print((x / 0) * 0): as written the run ends with Division by zero,
\* optimized it prints 0 and halts.
FaultOptimizedAway ==
    /\ pc = "done"
    /\ ast[2] = PrintStmt(BinOp(BinOp(Var("x", 2), "/", Number(0, 2), 2), "*",
                                Number(0, 2), 2), 2)
    /\ opt[2] = PrintStmt(Number(0, 2), 2)
    /\ ref.status = "fault" /\ ref.fault = "Division by zero" /\ ref.out = <<>>
    /\ vm.status = "halted" /\ vm.out = <<0>>

(***************************************************************************)
(* C28: the stack discipline of compiled code.                             *)
(***************************************************************************)
Site(kind, c, d) == [kind |-> kind, start |-> Len(c.code), end |-> Len(d.code)]

\* The places of the code of an expression and of its operands, compiled
\* from compiler state c.
RECURSIVE ExprSites(_, _)
ExprSites(c, e) ==
    {Site("expr", c, compile_expr(c, e))}
    \cup IF e.kind = "BinOp"
         THEN ExprSites(c, e.left) \cup ExprSites(compile_expr(c, e.left), e.right)
         ELSE {}

\* The places of the code of the statements of a body, of the statements
\* nested in them and of all their expressions.
RECURSIVE BodySites(_, _)
BodySites(c, stmts) ==
    IF stmts = <<>> THEN {}
    ELSE LET s == Head(stmts)
             inner ==
                 IF s.kind \in {"Assign", "Print"} THEN ExprSites(c, s.expr)
                 ELSE LET c2 == emit(compile_expr(c, s.cond), JUMP_IF_FALSE, NoArg)
                      IN  ExprSites(c, s.cond)
                          \cup IF s.kind = "While" THEN BodySites(c2, s.body)
                               ELSE BodySites(c2, s.then_body)
                                    \cup IF ElseTruthy(s)
                                         THEN BodySites(emit(compile_body(c2, s.then_body),
                                                             JUMP, NoArg), s.else_body)
                                         ELSE {}
         IN  {Site("stmt", c, compile_stmt(c, s))} \cup inner
             \cup BodySites(compile_stmt(c, s), Tail(stmts))

ProgramSites == BodySites(CompilerInit, ast)

\* The run continued from state s until ip is at index end or the run is over.
RECURSIVE RunTo(_, _)
RunTo(s, end) ==
    IF s.status # "running" \/ s.ip = end \/ s.steps >= MaxSteps THEN s
    ELSE RunTo(VMStep(s, bc.code, bc.consts, bc.names), end)

\* The top-level statements start at these indices.
TopLevelStarts ==
    {Len(compile_body(CompilerInit, SubSeq(ast, 1, k)).code) : k \in 0..(Len(ast) - 1)}

\* C28: in a run of compiled code the code of an expression, run from its
\* first instruction to its end, leaves the stack as it was with one value
\* more; the stack is empty at the first instruction of every statement and
\* behind its code; Stack underflow is never raised; the stack is empty at
\* the start of each top-level statement and at HALT.
StackDiscipline ==
    pc = "vm" =>
        /\ vm.fault # "Stack underflow"
        /\ vm.status = "halted" => vm.stack = <<>> /\ vm.ip = Len(bc.code) - 1
        /\ (vm.status = "running" /\ vm.ip \in TopLevelStarts) => vm.stack = <<>>
        /\ vm.status = "running" =>
              \A s \in ProgramSites :
                  /\ (s.kind = "stmt" /\ vm.ip \in {s.start, s.end}) => vm.stack = <<>>
                  /\ (s.kind = "expr" /\ vm.ip = s.start) =>
                        LET t == RunTo(vm, s.end)
                        IN  (t.status = "running" /\ t.ip = s.end) =>
                               /\ Len(t.stack) = Len(vm.stack) + 1
                               /\ SubSeq(t.stack, 1, Len(vm.stack)) = vm.stack

\* print((x + 1) * (2 + x)) with x = 1: the right operand 2 + x is about to
\* be evaluated on top of the value of the left one, and will leave 3 on it.
StackDisciplineWitness ==
    /\ pc = "vm" /\ vm.status = "running"
    /\ ast[2] = PrintStmt(BinOp(Plus(Var("x", 2), Number(1, 2), 2), "*",
                                Plus(Number(2, 2), Var("x", 2), 2), 2), 2)
    /\ vm.stack = <<2>>
    /\ [kind |-> "expr", start |-> vm.ip, end |-> vm.ip + 3] \in ProgramSites
    /\ RunTo(vm, vm.ip + 3).stack = <<2, 3>>

\* A loop run twice has halted on an empty stack.
StackEmptyAtHaltWitness ==
    /\ pc = "vm" /\ vm.status = "halted" /\ vm.stack = <<>>
    /\ ast[2].kind = "While" /\ Len(vm.out) >= 2

(***************************************************************************)
(* SpecSound: programs over x and y are checked by SemanticAnalyzer.check, *)
(* then optimized, compiled and run, as written and as optimized.  The     *)
(* first statement binds x or y; the second is an if or a while whose      *)
(* bodies bind and read x and y; a read of x or y may follow.              *)
(***************************************************************************)
SoundFirst ==
    {Assign("x", Number(a, 1), 1) : a \in 0..1} \cup {Assign("y", Number(0, 1), 1)}

SoundAssigns(line) ==
    {Assign("y", Number(1, line), line),
     Assign("x", Plus(Var("x", line), Number(1, line), line), line),
     Assign("x", Var("y", line), line),
     Assign("y", BinOp(Var("x", line), "*", Number(0, line), line), line)}

SoundReads(line) == {PrintStmt(Var("x", line), line), PrintStmt(Var("y", line), line)}

SoundBodies(line) ==
    {<<s>> : s \in SoundAssigns(line) \cup SoundReads(line)}
    \cup {<<s, t>> : s \in SoundAssigns(line), t \in SoundAssigns(line + 1) \cup SoundReads(line + 1)}

SoundShort(line) == {<<s>> : s \in SoundReads(line) \cup {Assign("y", Number(1, line), line)}}

SoundConds(line) ==
    {Lt(Var("x", line), Number(1, line), line), Lt(Var("y", line), Number(1, line), line),
     Lt(Number(0, line), Number(1, line), line), Lt(Number(1, line), Number(0, line), line),
     BinOp(Var("x", line), "==", Var("y", line), line)}

SoundSecond ==
    {If(c, b, FALSE, <<>>, 2) : c \in SoundConds(2), b \in SoundBodies(3)}
    \cup {If(c, b, TRUE, e, 2) : c \in SoundConds(2), b \in SoundBodies(3), e \in SoundShort(6)}
    \cup {While(c, b, 2) : c \in SoundConds(2), b \in SoundBodies(3)}
    \cup {While(c, <<If(d, b, TRUE, e, 3)>>, 2) :
            c \in SoundConds(2), d \in SoundConds(3), b \in SoundShort(4), e \in SoundShort(6)}

SoundTails == {<<>>} \cup {<<s>> : s \in SoundReads(9)}

SoundPrograms == {<<f, s>> \o t : f \in SoundFirst, s \in SoundSecond, t \in SoundTails}

InitSound ==
    /\ pc = "check"
    /\ ast \in SoundPrograms
    /\ an = AnalyzerInit
    /\ idx = 0
    /\ bc = CompilerInit
    /\ LexUnused /\ OptUnused /\ RunUnused
    /\ ParseUnused /\ DriverUnused

\* optimizer.optimize(ast), compile_ast and VM.run, for the program as
\* written (ref) and as optimized (vm)
RunChecked ==
    /\ pc = "checked"
    /\ opt' = optimize_program(ast)
    /\ bc' = compile_ast(opt')
    /\ vm' = run_bytecode(bc'.code, bc'.consts, bc'.names)
    /\ ref' = LET b == compile_ast(ast) IN run_bytecode(b.code, b.consts, b.names)
    /\ pc' = "done"
    /\ UNCHANGED <<source, lx, ast, an, idx, opt2, interp, ps, drv>>

NextSound == AnalyzeStatement \/ CheckReturn \/ RunChecked

SpecSound == InitSound /\ [][NextSound]_vars

(***************************************************************************)
(* C29: soundness of the semantic check with respect to the VM.            *)
(***************************************************************************)

\* C29: when check returned an empty error list, the run of the compiled
\* code raises no 'Undefined variable', as written or optimized.
CheckSound ==
    (pc = "done" /\ an.errors = <<>>) =>
        /\ vm.fault # "Undefined variable"
        /\ ref.fault # "Undefined variable"

\* x = 0, if x < 1: y = 1, print(y): y lives in the block only, check finds
\* nothing, both runs print 1 and halt.
CheckSoundWitness ==
    /\ pc = "done" /\ an.errors = <<>>
    /\ ast = <<Assign("x", Number(0, 1), 1),
               If(Lt(Var("x", 2), Number(1, 2), 2),
                  <<Assign("y", Number(1, 3), 3), PrintStmt(Var("y", 4), 4)>>,
                  FALSE, <<>>, 2)>>
    /\ vm.status = "halted" /\ vm.out = <<1>>
    /\ ref.status = "halted" /\ ref.out = <<1>>

\* A loop whose body branches passed the check, ran to its end and the read
\* behind it printed the value bound in the loop.
CheckSoundLoopWitness ==
    /\ pc = "done" /\ an.errors = <<>>
    /\ ast[2].kind = "While" /\ ast[2].body[1].kind = "If"
    /\ ref.status = "halted" /\ ref.out = <<1>> /\ vm.out = <<1>>

\* x = 0, if 1 < 0: y = 1, then print(y): check reports y at line 9 and the
\* run faults there.
CheckReportsFault ==
    /\ pc = "done"
    /\ Reported("Undefined", "y", 9)
    /\ ref.status = "fault" /\ ref.fault = "Undefined variable"
    /\ vm.status = "fault" /\ vm.fault = "Undefined variable"

(***************************************************************************)
(* C30: termination of loop-free programs.                                 *)
(***************************************************************************)

RECURSIVE HasWhile(_)
HasWhile(stmts) ==
    \E i \in DOMAIN stmts :
        \/ stmts[i].kind = "While"
        \/ stmts[i].kind = "If"
           /\ (HasWhile(stmts[i].then_body) \/ HasWhile(stmts[i].else_body))

\* The indices of the jumps whose operand is not beyond the jump.
BackwardJumps ==
    {i \in 0..(Len(bc.code) - 1) :
        bc.code[i + 1].opcode \in JumpOpcodes /\ bc.code[i + 1].arg <= i}

\* C30: in code compiled from a program without While every jump operand is
\* greater than the index of the jump, ip grows with every step that does not
\* end the run, and the run is over (at HALT or at a fault) when at most
\* len(code) instructions have been executed: until then the next instruction
\* is there to be executed.  A step that does not move ip forward is the
\* back-jump of a While.
LoopFreeTerminates ==
    /\ [](pc = "vm" => (BackwardJumps # {} => HasWhile(ast)))
    /\ []((pc = "vm" /\ ~HasWhile(ast)) =>
            /\ vm.steps <= Len(bc.code)
            /\ vm.status \in {"running", "halted", "fault"}
            /\ vm.status = "running" =>
                  (vm.steps <= vm.ip /\ vm.ip < Len(bc.code) /\ vm.steps < MaxSteps))
    /\ [][(VMSteps /\ ~HasWhile(ast) /\ vm'.status = "running") => vm'.ip > vm.ip]_vars
    /\ [][(VMSteps /\ vm'.status = "running" /\ vm'.ip <= vm.ip) =>
             vm.ip \in BackwardJumps /\ bc.code[vm.ip + 1].opcode = JUMP]_vars

\* x = 0, if x < 1: print(x) else: print(0), print(x): no loop, the run took
\* both forward jumps' code in increasing order and halted within len(code)
\* instructions.
LoopFreeTerminatesWitness ==
    /\ pc = "vm" /\ vm.status = "halted" /\ vm.out = <<0, 0>>
    /\ ~HasWhile(ast)
    /\ ast[2] = If(Lt(Var("x", 2), Number(1, 2), 2), <<PrintStmt(Var("x", 3), 3)>>, TRUE,
                   <<PrintStmt(Number(0, 5), 5)>>, 2)
    /\ BackwardJumps = {}
    /\ \E i \in 1..Len(bc.code) : bc.code[i].opcode = JUMP
    /\ vm.steps < Len(bc.code)

\* x = 1, while x: print(x), x = x + 1: the back-jump has been taken again and
\* again, and the run has executed more instructions than the code holds.
BackwardJumpWitness ==
    /\ pc = "vm" /\ vm.status = "running"
    /\ ast[2].kind = "While" /\ ast[2].cond = Var("x", 2)
    /\ BackwardJumps # {}
    /\ vm.steps > Len(bc.code) /\ vm.steps = MaxSteps

====
